------------------------- MODULE KeyboardTaskProofs -------------------------
(***************************************************************************)
(* Theorems about the executor and the keyboard task, for every set of     *)
(* tasks, capacity of the queues and number of keyboard interrupts.        *)
(***************************************************************************)
EXTENDS KeyboardTask, TLAPS

\* What is in a queue after a push.
LEMMA HasAppend ==
  ASSUME NEW T, NEW q \in Seq(T), NEW t \in T, NEW u
  PROVE  Has(Append(q, t), u) <=> Has(q, u) \/ u = t
<1>1. DOMAIN Append(q, t) = 1 .. Len(q) + 1 /\ DOMAIN q = 1 .. Len(q) /\ Len(q) \in Nat
  OBVIOUS
<1>2. \A k \in 1 .. Len(q) : Append(q, t)[k] = q[k]
  OBVIOUS
<1>3. Append(q, t)[Len(q) + 1] = t
  OBVIOUS
<1>. QED
  BY <1>1, <1>2, <1>3 DEF Has

\* What is in a queue after a pop: all but the task that is popped.
LEMMA HasTail ==
  ASSUME NEW T, NEW q \in Seq(T), q # <<>>, NEW u, u # Head(q)
  PROVE  Has(Tail(q), u) <=> Has(q, u)
<1>1. /\ Len(q) \in Nat \ {0}
      /\ DOMAIN Tail(q) = 1 .. Len(q) - 1 /\ DOMAIN q = 1 .. Len(q)
  OBVIOUS
<1>2. \A k \in 1 .. Len(q) - 1 : Tail(q)[k] = q[k + 1]
  OBVIOUS
<1>3. Head(q) = q[1]
  OBVIOUS
<1>4. ASSUME Has(q, u) PROVE Has(Tail(q), u)
  <2>1. PICK k \in 1 .. Len(q) : q[k] = u
    BY <1>1, <1>4 DEF Has
  <2>2. k - 1 \in 1 .. Len(q) - 1
    BY <1>1, <1>3, <2>1
  <2>3. Tail(q)[k - 1] = u
    BY <1>2, <2>1, <2>2
  <2>. QED
    BY <1>1, <2>2, <2>3 DEF Has
<1>5. ASSUME Has(Tail(q), u) PROVE Has(q, u)
  BY <1>1, <1>2, <1>5 DEF Has
<1>. QED
  BY <1>4, <1>5

\* A push (PushTask): what was queued stays queued, and the task is queued unless
\* the queue was full and the push panicked.
LEMMA Pushed ==
  ASSUME TypeOK, NEW t \in Tasks, NEW next, PushTask(t, next)
  PROVE  /\ task_queue' \in Seq(Tasks) /\ Len(task_queue') <= TASK_QUEUE_CAP
         /\ Len(task_queue') <= Len(task_queue) + 1
         /\ pc' \in {next, "panicked"}
         /\ Len(task_queue) < TASK_QUEUE_CAP => pc' = next
         /\ \A u : Has(task_queue, u) => Has(task_queue', u)
         /\ pc' # "panicked" => Has(task_queue', t)
<1>1. task_queue \in Seq(Tasks) /\ Len(task_queue) <= TASK_QUEUE_CAP
  BY DEF TypeOK
<1>2. CASE Len(task_queue) < TASK_QUEUE_CAP
  <2>1. task_queue' = Append(task_queue, t) /\ pc' = next
    BY <1>2 DEF PushTask
  <2>2. task_queue' \in Seq(Tasks) /\ Len(task_queue') = Len(task_queue) + 1
    BY <1>1, <2>1
  <2>3. \A u : Has(task_queue', u) <=> Has(task_queue, u) \/ u = t
    BY <1>1, <2>1, HasAppend
  <2>. QED
    BY <1>1, <1>2, <2>1, <2>2, <2>3, ExecutorAssumption
<1>3. CASE ~(Len(task_queue) < TASK_QUEUE_CAP)
  <2>1. task_queue' = task_queue /\ pc' = "panicked"
    BY <1>3 DEF PushTask
  <2>. QED
    BY <1>1, <1>3, <2>1
<1>. QED
  BY <1>2, <1>3

\* The steps that leave the task queue alone preserve the invariant.
LEMMA PlainInv ==
  ASSUME KeyboardInv,
         \/ /\ run \/ QueueEmpty \/ disable \/ CheckIdle \/ enable_and_hlt \/ enable
            /\ UNCHANGED kb_vars
         \/ PollOther \/ PollKeyboard \/ ScancodeStream_new \/ FastPop \/ FastPopNone \/ RegisterStore \/ Registered \/ SecondPop \/ TakeStart \/ TakeWaker \/ TakeEnd \/ OtherInterrupt
  PROVE  KeyboardInv'
<1>. USE KeyboardAssumption
     DEF KeyboardInv, TypeOK, WakerFlags, Polling, Armed, Sleeping, KeyboardWaits,
         Queued, InPoll, NoTask, kb_vars, Goto
<1>1. CASE run /\ UNCHANGED kb_vars
  BY <1>1 DEF run
<1>2. CASE QueueEmpty /\ UNCHANGED kb_vars
  BY <1>2 DEF QueueEmpty
<1>3. CASE disable /\ UNCHANGED kb_vars
  BY <1>3 DEF disable
<1>4. CASE CheckIdle /\ UNCHANGED kb_vars
  BY <1>4 DEF CheckIdle
<1>5. CASE enable_and_hlt /\ UNCHANGED kb_vars
  BY <1>5 DEF enable_and_hlt
<1>6. CASE enable /\ UNCHANGED kb_vars
  BY <1>6 DEF enable
<1>7. CASE PollOther
  BY <1>7 DEF PollOther, PollReady
<1>8. CASE PollKeyboard
  BY <1>8 DEF PollKeyboard
<1>9. CASE ScancodeStream_new
  BY <1>9 DEF ScancodeStream_new
<1>10. CASE FastPop
  BY <1>10 DEF FastPop
<1>11. CASE FastPopNone
  BY <1>11 DEF FastPopNone
<1>12. CASE RegisterStore
  BY <1>12 DEF RegisterStore
<1>13. CASE Registered
  BY <1>13 DEF Registered
<1>14. CASE SecondPop
  <2>1. CASE scancodes > 0
    <3>1. /\ pc = "pop2" /\ pc' = "take"
          /\ scancodes' = scancodes - 1 /\ consumed' = consumed + 1
          /\ UNCHANGED <<to_spawn, tasks, task_queue, waker_cache, current, interrupts>>
          /\ UNCHANGED <<initialized, waker_state, waker, resume, keys>>
      BY <1>14, <2>1 DEF SecondPop
    <3>. QED
      BY <2>1, <3>1
  <2>2. CASE ~(scancodes > 0)
    BY <1>14, <2>2 DEF SecondPop, PollPending
  <2>. QED
    BY <2>1, <2>2
<1>15. CASE TakeStart
  BY <1>15 DEF TakeStart
<1>16. CASE TakeWaker
  BY <1>16 DEF TakeWaker
<1>17. CASE TakeEnd
  BY <1>17 DEF TakeEnd
<1>18. CASE OtherInterrupt
  BY <1>18 DEF OtherInterrupt, Resume
<1>. QED
  BY <1>1, <1>2, <1>3, <1>4, <1>5, <1>6, <1>7, <1>8, <1>9, <1>10, <1>11, <1>12, <1>13, <1>14, <1>15, <1>16, <1>17, <1>18

\* spawn preserves the invariant.
LEMMA spawnInv ==
  ASSUME KeyboardInv, spawn, UNCHANGED kb_vars
  PROVE  KeyboardInv'
<1>. DEFINE t == Head(to_spawn)
<1>1. /\ t \in Tasks /\ to_spawn' \in Seq(Tasks)
      /\ pc = "spawn" /\ pc' \in {"spawn", "panicked"}
      /\ tasks \subseteq tasks' /\ tasks' \subseteq Tasks
      /\ UNCHANGED <<waker_cache, current, interrupts>>
      /\ task_queue' \in Seq(Tasks) /\ Len(task_queue') <= TASK_QUEUE_CAP
      /\ \A u : Has(task_queue, u) => Has(task_queue', u)
  <2>1. t \in Tasks /\ to_spawn' \in Seq(Tasks)
    BY DEF spawn, KeyboardInv, TypeOK
  <2>2. CASE t \in tasks
    BY <2>1, <2>2 DEF spawn, KeyboardInv, TypeOK
  <2>3. CASE t \notin tasks
    <3>1. PushTask(t, "spawn") /\ tasks' = tasks \cup {t}
      BY <2>3 DEF spawn
    <3>. QED
      BY <2>1, <3>1, Pushed DEF spawn, KeyboardInv, TypeOK
  <2>. QED
    BY <2>2, <2>3
<1>. QED
  BY <1>1, KeyboardAssumption
  DEF KeyboardInv, TypeOK, WakerFlags, Polling, Armed, Sleeping, KeyboardWaits,
      Queued, InPoll, NoTask, kb_vars

\* A pop in run_ready_tasks preserves the invariant: it un-queues no task but the
\* one that is polled next.
LEMMA PopTaskInv ==
  ASSUME KeyboardInv, PopTask, UNCHANGED kb_vars
  PROVE  KeyboardInv'
<1>1. /\ task_queue' \in Seq(Tasks) /\ Len(task_queue') = Len(task_queue) - 1
      /\ current' \in Tasks /\ Len(task_queue) \in Nat
  BY DEF PopTask, KeyboardInv, TypeOK
<1>2. \A u : Has(task_queue, u) /\ u # current' => Has(task_queue', u)
  BY HasTail DEF PopTask, KeyboardInv, TypeOK
<1>3. TypeOK' /\ (consumed + scancodes <= keys)'
  BY <1>1, ExecutorAssumption DEF PopTask, KeyboardInv, TypeOK, kb_vars
<1>4. WakerFlags' /\ Sleeping'
  BY DEF PopTask, KeyboardInv, WakerFlags, Sleeping, kb_vars
<1>5. Polling' /\ waker_cache' \subseteq tasks'
  BY KeyboardAssumption DEF PopTask, KeyboardInv, Polling, InPoll, kb_vars
<1>6. Armed'
  <2>1. CASE current' = Keyboard
    BY <2>1 DEF PopTask, KeyboardInv, Polling, Armed, KeyboardWaits, InPoll, kb_vars
  <2>2. CASE current' # Keyboard
    BY <1>2, <2>2 DEF PopTask, KeyboardInv, Armed, KeyboardWaits, Queued, InPoll, kb_vars
  <2>. QED
    BY <2>1, <2>2
<1>. QED
  BY <1>3, <1>4, <1>5, <1>6 DEF KeyboardInv

\* The start of AtomicWaker::register, and the wakeup at its end, preserve the
\* invariant.
LEMMA RegisterInv ==
  ASSUME KeyboardInv, Register \/ RegisterWake
  PROVE  KeyboardInv'
<1>1. CASE Register
  <2>1. waker_state = {}
    BY <1>1 DEF Register, KeyboardInv, WakerFlags
  <2>2. Goto("register", "store") /\ waker_state' = {"REGISTERING"}
    BY <1>1, <2>1 DEF Register
  <2>. QED
    BY <1>1, <2>2, KeyboardAssumption
    DEF Register, Goto, KeyboardInv, TypeOK, WakerFlags, Polling, Armed, Sleeping,
        KeyboardWaits, Queued, InPoll, NoTask, kb_vars
<1>2. CASE RegisterWake
  <2>1. current \in Tasks /\ PushTask(current, "pop2")
    BY <1>2 DEF RegisterWake, wake_task, KeyboardInv, TypeOK, Polling, InPoll
  <2>. QED
    BY <1>2, <2>1, Pushed, KeyboardAssumption
    DEF RegisterWake, KeyboardInv, TypeOK, WakerFlags, Polling, Armed, Sleeping,
        KeyboardWaits, Queued, InPoll, NoTask, kb_vars
<1>. QED
  BY <1>1, <1>2

\* The keyboard interrupt preserves the invariant, wherever it comes.
LEMMA KeyboardInterruptInv ==
  ASSUME KeyboardInv, KeyboardInterrupt
  PROVE  KeyboardInv'
<1>. USE DEF KeyboardInv, TypeOK, WakerFlags, Polling, Armed, Sleeping,
             KeyboardWaits, Queued, InPoll, NoTask
<1>0. /\ interrupts = "on" /\ keys' = keys + 1 /\ keys < MAX_KEYS
      /\ UNCHANGED <<to_spawn, tasks, waker_cache, current, initialized, resume, consumed>>
  BY DEF KeyboardInterrupt
<1>1. CASE DropsScancode
  <2>1. pc' = Resume /\ UNCHANGED <<task_queue, scancodes, waker_state, waker, interrupts>>
    BY <1>1 DEF KeyboardInterrupt
  <2>. QED
    BY <1>0, <2>1, KeyboardAssumption DEF Resume
<1>2. CASE ~DropsScancode /\ waker_state # {}
  <2>1. /\ pc' = Resume /\ scancodes' = scancodes + 1
        /\ waker_state' = waker_state \cup {"WAKING"}
        /\ UNCHANGED <<task_queue, waker, interrupts>>
    BY <1>2 DEF KeyboardInterrupt, WakeInHandler
  <2>2. pc \in {"store", "registered", "take_waker", "take_end"} /\ pc' = pc
    BY <1>2, <2>1 DEF Resume
  <2>3. WakerFlags'
    BY <2>1, <2>2
  <2>4. TypeOK' /\ (consumed + scancodes <= keys)'
    BY <1>0, <1>2, <2>1, <2>2, KeyboardAssumption DEF DropsScancode
  <2>5. Polling' /\ Armed' /\ Sleeping' /\ waker_cache' \subseteq tasks'
    BY <1>0, <2>1, <2>2
  <2>. QED
    BY <2>3, <2>4, <2>5
<1>3. CASE ~DropsScancode /\ waker_state = {} /\ waker = NoTask
  <2>1. /\ pc' = Resume /\ scancodes' = scancodes + 1
        /\ UNCHANGED <<task_queue, waker, waker_state, interrupts>>
    BY <1>3 DEF KeyboardInterrupt, WakeInHandler
  <2>. QED
    BY <1>0, <1>3, <2>1, KeyboardAssumption DEF DropsScancode, Resume
<1>4. CASE ~DropsScancode /\ waker_state = {} /\ waker = Keyboard
  <2>1. /\ PushTask(Keyboard, Resume) /\ scancodes' = scancodes + 1
        /\ waker' = NoTask /\ interrupts' \in {"on", "off"} /\ UNCHANGED waker_state
    BY <1>4, KeyboardAssumption DEF KeyboardInterrupt, WakeInHandler, wake_task
  <2>2. /\ task_queue' \in Seq(Tasks) /\ Len(task_queue') <= TASK_QUEUE_CAP
        /\ pc' \in {Resume, "panicked"}
        /\ pc' # "panicked" => Has(task_queue', Keyboard)
    BY <2>1, Pushed, KeyboardAssumption
  <2>. QED
    BY <1>0, <1>4, <2>1, <2>2, KeyboardAssumption DEF DropsScancode, Resume
<1>. QED
  BY <1>1, <1>2, <1>3, <1>4

\* Every step preserves the invariant.
LEMMA NextInv ==
  ASSUME KeyboardInv, [Next]_vars
  PROVE  KeyboardInv'
<1>1. CASE Next
  BY <1>1, PlainInv, spawnInv, PopTaskInv, RegisterInv, KeyboardInterruptInv
  DEF Next, Foreground, ExecStep, KeyboardStep
<1>2. CASE UNCHANGED vars
  BY <1>2 DEF vars, exec_vars, kb_vars, KeyboardInv, TypeOK, WakerFlags, Polling,
    Armed, Sleeping, KeyboardWaits, Queued, InPoll
<1>. QED
  BY <1>1, <1>2

\* The invariant holds before kernel_main spawns the first task.
LEMMA InitInv == Init => KeyboardInv
  BY ExecutorAssumption, KeyboardAssumption
  DEF Init, ExecInit, KeyboardInv, TypeOK, WakerFlags, Polling, Armed, Sleeping,
      KeyboardWaits, Queued, InPoll, NoTask

\* The inductive invariant holds for every number of tasks, capacity of the queues
\* and number of interrupts.
THEOREM KeyboardInvariant == Spec => []KeyboardInv
  BY InitInv, NextInv, PTL DEF Spec

\* No wakeup of the keyboard task is lost (poll_next, add_scancode).
THEOREM WakeupsAreNotLost == Spec => []NoLostWakeup
<1>1. KeyboardInv => NoLostWakeup
  BY DEF KeyboardInv, Armed, NoLostWakeup
<1>. QED
  BY <1>1, KeyboardInvariant, PTL

\* The processor does not halt with work to do (sleep_if_idle).
THEOREM SleepsOnlyWhenIdle == Spec => []NoSleepOnWork
<1>1. KeyboardInv => NoSleepOnWork
  <2>. SUFFICES ASSUME KeyboardInv, pc = "halted" PROVE task_queue = <<>> /\ scancodes = 0
    BY DEF NoSleepOnWork
  <2>1. task_queue = <<>>
    BY DEF KeyboardInv, Sleeping
  <2>2. ~Queued(Keyboard)
    BY <2>1 DEF Queued, Has
  <2>. QED
    BY <2>1, <2>2 DEF KeyboardInv, TypeOK, Polling, Armed, KeyboardWaits, InPoll
<1>. QED
  BY <1>1, KeyboardInvariant, PTL

\* The waker that a handler consumes is not its task's last (add_scancode).
THEOREM HandlersFreeNothing == Spec => []HandlerFreesNothing
<1>1. KeyboardInv => HandlerFreesNothing
  BY DEF KeyboardInv, TypeOK, Armed, Polling, HandlerFreesNothing
<1>. QED
  BY <1>1, KeyboardInvariant, PTL

-----------------------------------------------------------------------------
\* The steps that push nothing keep the count of wakeups within its bound.
LEMMA RoomPlain ==
  ASSUME KeyboardInv, RoomInv,
         \/ /\ run \/ QueueEmpty \/ disable \/ CheckIdle \/ enable_and_hlt \/ enable
            /\ UNCHANGED kb_vars
         \/ PollOther \/ PollKeyboard \/ ScancodeStream_new \/ FastPop \/ FastPopNone
         \/ Register \/ RegisterStore \/ Registered \/ SecondPop
         \/ TakeStart \/ TakeWaker \/ TakeEnd \/ OtherInterrupt
  PROVE  RoomInv'
<1>1. UNCHANGED <<task_queue, to_spawn, keys>> /\ tasks' \subseteq tasks
  BY DEF KeyboardInv, WakerFlags, kb_vars, Goto, run, QueueEmpty, disable, CheckIdle,
    enable_and_hlt, enable, PollOther, PollReady, PollKeyboard, ScancodeStream_new,
    FastPop, FastPopNone, Register, RegisterStore, Registered, SecondPop, PollPending,
    TakeStart, TakeWaker, TakeEnd, OtherInterrupt
<1>2. pc' # "panicked"
  BY DEF KeyboardInv, TypeOK, WakerFlags, Polling, RoomInv, kb_vars, Goto, run, QueueEmpty,
    disable, CheckIdle, enable_and_hlt, enable, PollOther, PollReady, PollKeyboard,
    ScancodeStream_new, FastPop, FastPopNone, Register, RegisterStore, Registered,
    SecondPop, PollPending, TakeStart, TakeWaker, TakeEnd, OtherInterrupt, Resume
<1>3. Due' <= Due /\ Due \in Nat /\ Due' \in Nat
  <2>0. Due \in {0, 1} /\ Due' \in {0, 1}
    BY DEF Due
  <2>1. CASE Register
    BY <2>1 DEF Due, KeyboardInv, WakerFlags, Goto, Register
  <2>2. CASE RegisterStore
    BY <2>2 DEF Due, Goto, RegisterStore
  <2>3. CASE Registered
    <3>1. ASSUME Due' = 1 PROVE Due = 1
      <4>1. pc = "registered" /\ waker_state # {"REGISTERING"}
        BY <2>3, <3>1 DEF Due, Goto, Registered
      <4>2. "REGISTERING" \in waker_state /\ waker_state \subseteq {"REGISTERING", "WAKING"}
        BY <4>1 DEF KeyboardInv, TypeOK, WakerFlags
      <4>3. "WAKING" \in waker_state
        BY <4>1, <4>2
      <4>. QED
        BY <4>1, <4>3 DEF Due
    <3>. QED
      BY <2>0, <3>1
  <2>4. CASE OtherInterrupt
    BY <2>4 DEF Due, OtherInterrupt, Resume, kb_vars
  <2>5. CASE ~(Register \/ RegisterStore \/ Registered \/ OtherInterrupt)
    <3>1. pc' \notin {"wake", "store", "registered"}
      BY <2>5 DEF KeyboardInv, TypeOK, WakerFlags, Polling, kb_vars, Goto, run, QueueEmpty,
        disable, CheckIdle, enable_and_hlt, enable, PollOther, PollReady, PollKeyboard,
        ScancodeStream_new, FastPop, FastPopNone, SecondPop, PollPending,
        TakeStart, TakeWaker, TakeEnd
    <3>2. pc' \notin {"wake", "store", "registered"} => Due' = 0
      BY DEF Due
    <3>. QED
      BY <2>0, <3>1, <3>2
  <2>. QED
    BY <2>0, <2>1, <2>2, <2>3, <2>4, <2>5
<1>4. Len(task_queue) \in Nat /\ Len(to_spawn) \in Nat /\ Len(SPAWN_ORDER) \in Nat /\ keys \in Nat
  BY ExecutorAssumption DEF KeyboardInv, TypeOK
<1>. QED
  BY <1>1, <1>2, <1>3, <1>4 DEF RoomInv

\* The steps that push or pop keep the count of wakeups within its bound.
LEMMA RoomPush ==
  ASSUME TASK_QUEUE_CAP >= Len(SPAWN_ORDER) + MAX_KEYS,
         KeyboardInv, RoomInv,
         \/ (spawn \/ PopTask) /\ UNCHANGED kb_vars
         \/ RegisterWake \/ KeyboardInterrupt
  PROVE  RoomInv'
<1>0. /\ task_queue \in Seq(Tasks) /\ to_spawn \in Seq(Tasks)
      /\ Len(task_queue) \in Nat /\ Len(to_spawn) \in Nat /\ Len(SPAWN_ORDER) \in Nat
      /\ keys \in Nat /\ keys <= MAX_KEYS
      /\ TASK_QUEUE_CAP \in Nat /\ MAX_KEYS \in Nat
  BY ExecutorAssumption, KeyboardAssumption DEF KeyboardInv, TypeOK
<1>1. CASE spawn /\ UNCHANGED kb_vars
  <2>1. /\ Len(to_spawn) > 0 /\ Len(to_spawn') = Len(to_spawn) - 1
        /\ to_spawn' = Tail(to_spawn) /\ pc = "spawn" /\ Head(to_spawn) = to_spawn[1]
        /\ Head(to_spawn) \in Tasks
    BY <1>0, <1>1 DEF spawn
  <2>2. DOMAIN to_spawn = 1 .. Len(to_spawn) /\ DOMAIN to_spawn' = 1 .. Len(to_spawn) - 1
    BY <1>0, <2>1
  <2>3. \A k \in DOMAIN to_spawn' : k + 1 \in DOMAIN to_spawn /\ to_spawn'[k] = to_spawn[k + 1]
    BY <1>0, <2>1, <2>2
  <2>4. Head(to_spawn) \notin tasks
    BY <1>0, <2>1, <2>2 DEF RoomInv
  <2>5. Due = 0 /\ Len(task_queue) < TASK_QUEUE_CAP
    BY <1>0, <2>1 DEF RoomInv, Due
  <2>6. PushTask(Head(to_spawn), "spawn") /\ tasks' = tasks \cup {Head(to_spawn)}
    BY <1>1, <2>4 DEF spawn
  <2>7. pc' = "spawn" /\ Len(task_queue') <= Len(task_queue) + 1 /\ Len(task_queue') \in Nat
    BY <1>0, <2>1, <2>5, <2>6, Pushed DEF KeyboardInv
  <2>8. Due' = 0 /\ keys' = keys
    BY <1>1, <2>7 DEF Due, kb_vars
  <2>9. \A k \in DOMAIN to_spawn' : to_spawn'[k] \notin tasks'
    <3>1. TAKE k \in DOMAIN to_spawn'
    <3>2. k + 1 \in DOMAIN to_spawn /\ k + 1 # 1 /\ 1 \in DOMAIN to_spawn
      BY <1>0, <2>1, <2>2, <2>3
    <3>. QED
      BY <2>1, <2>3, <2>6, <3>2 DEF RoomInv
  <2>10. \A j, k \in DOMAIN to_spawn' : to_spawn'[j] = to_spawn'[k] => j = k
    <3>1. TAKE j, k \in DOMAIN to_spawn'
    <3>2. to_spawn'[j] = to_spawn'[k] => j + 1 = k + 1
      BY <2>3 DEF RoomInv
    <3>. QED
      BY <2>2, <3>2
  <2>. QED
    BY <1>0, <2>1, <2>5, <2>7, <2>8, <2>9, <2>10 DEF RoomInv
<1>2. CASE PopTask /\ UNCHANGED kb_vars
  <2>1. /\ Len(task_queue') = Len(task_queue) - 1 /\ UNCHANGED <<to_spawn, tasks, keys>>
        /\ Due = 0 /\ Due' = 0 /\ pc' # "panicked"
    BY <1>0, <1>2 DEF PopTask, kb_vars, Due
  <2>. QED
    BY <1>0, <2>1 DEF RoomInv
<1>3. CASE RegisterWake
  <2>1. /\ current \in Tasks /\ PushTask(current, "pop2") /\ Due = 1
        /\ UNCHANGED <<to_spawn, tasks, keys>>
    BY <1>3 DEF RegisterWake, wake_task, KeyboardInv, TypeOK, Polling, InPoll, Due, kb_vars
  <2>2. Len(task_queue) < TASK_QUEUE_CAP
    BY <1>0, <2>1 DEF RoomInv
  <2>3. pc' = "pop2" /\ Len(task_queue') <= Len(task_queue) + 1 /\ Len(task_queue') \in Nat
    BY <2>1, <2>2, Pushed DEF KeyboardInv
  <2>4. Due' = 0
    BY <2>3 DEF Due
  <2>. QED
    BY <1>0, <2>1, <2>3, <2>4 DEF RoomInv
<1>4. CASE KeyboardInterrupt
  <2>1. keys' = keys + 1 /\ keys < MAX_KEYS /\ UNCHANGED <<to_spawn, tasks>>
    BY <1>4 DEF KeyboardInterrupt
  <2>2. Due \in {0, 1} /\ Due' \in {0, 1}
    BY DEF Due
  <2>3. CASE DropsScancode
    <3>1. pc' = Resume /\ UNCHANGED <<task_queue, waker_state>>
      BY <1>4, <2>3 DEF KeyboardInterrupt
    <3>2. Due' <= Due /\ pc' # "panicked"
      BY <3>1 DEF Due, Resume, RoomInv
    <3>. QED
      BY <1>0, <2>1, <2>2, <3>1, <3>2 DEF RoomInv
  <2>4. CASE ~DropsScancode /\ (waker_state # {} \/ waker = NoTask)
    <3>1. pc' = Resume /\ UNCHANGED task_queue
      BY <1>4, <2>4 DEF KeyboardInterrupt, WakeInHandler
    <3>2. pc' # "panicked"
      BY <3>1 DEF Resume, RoomInv
    <3>. QED
      BY <1>0, <2>1, <2>2, <3>1, <3>2 DEF RoomInv
  <2>5. CASE ~DropsScancode /\ waker_state = {} /\ waker = Keyboard
    <3>1. PushTask(Keyboard, Resume) /\ waker_state' = {}
      BY <1>4, <2>5, KeyboardAssumption
      DEF KeyboardInterrupt, WakeInHandler, wake_task
    <3>2. Len(task_queue) < TASK_QUEUE_CAP
      BY <1>0, <2>1, <2>2 DEF RoomInv
    <3>3. pc' = Resume /\ Len(task_queue') <= Len(task_queue) + 1 /\ Len(task_queue') \in Nat
      BY <3>1, <3>2, Pushed, KeyboardAssumption DEF KeyboardInv
    <3>4. Due' <= Due /\ pc' # "panicked"
      BY <3>1, <3>3 DEF Due, Resume, RoomInv
    <3>. QED
      BY <1>0, <2>1, <2>2, <3>3, <3>4 DEF RoomInv
  <2>. QED
    BY <2>3, <2>4, <2>5 DEF KeyboardInv, Armed
<1>. QED
  BY <1>1, <1>2, <1>3, <1>4

\* A task queue with a place for each task and each keyboard interrupt never fills
\* up: wake_task and spawn do not panic.
THEOREM QueueNeverFull ==
  ASSUME TASK_QUEUE_CAP >= Len(SPAWN_ORDER) + MAX_KEYS,
         \A j, k \in DOMAIN SPAWN_ORDER : SPAWN_ORDER[j] = SPAWN_ORDER[k] => j = k
  PROVE  Spec => []QueueHasRoom
<1>1. Init => RoomInv
  BY ExecutorAssumption, KeyboardAssumption DEF Init, ExecInit, RoomInv, Due
<1>2. KeyboardInv /\ RoomInv /\ [Next]_vars => RoomInv'
  <2>. SUFFICES ASSUME KeyboardInv, RoomInv, [Next]_vars PROVE RoomInv'
    OBVIOUS
  <2>1. CASE Next
    BY <2>1, RoomPlain, RoomPush DEF Next, Foreground, ExecStep, KeyboardStep
  <2>2. CASE UNCHANGED vars
    BY <2>2 DEF vars, exec_vars, kb_vars, RoomInv, Due
  <2>. QED
    BY <2>1, <2>2
<1>3. RoomInv => QueueHasRoom
  BY DEF RoomInv, QueueHasRoom
<1>. QED
  BY <1>1, <1>2, <1>3, KeyboardInvariant, PTL DEF Spec

-----------------------------------------------------------------------------
\* The steps from each place, one by one.
LEMMA StepsFromValues ==
  /\ StepsFrom["take"] = 18 /\ StepsFrom["take_waker"] = 17 /\ StepsFrom["take_end"] = 16
  /\ StepsFrom["poll"] = 16 /\ StepsFrom["new"] = 15 /\ StepsFrom["next"] = 14
  /\ StepsFrom["register"] = 13 /\ StepsFrom["store"] = 12 /\ StepsFrom["registered"] = 11
  /\ StepsFrom["wake"] = 10 /\ StepsFrom["pop2"] = 9 /\ StepsFrom["spawn"] = 8
  /\ StepsFrom["pop"] = 5 /\ StepsFrom["disable"] = 4 /\ StepsFrom["check"] = 3
  /\ StepsFrom["enable"] = 2 /\ StepsFrom["enable_and_hlt"] = 2
  /\ StepsFrom["halted"] = 0 /\ StepsFrom["panicked"] = 0
  BY DEF StepsFrom

\* The steps that the foreground's place stands for.
Here == IF pc = "pop" /\ task_queue # <<>> THEN 1 ELSE StepsFrom[pc]

\* The work left is a number, of rounds and of steps within one.
WorkIsANumber ==
  /\ WorkLeft = ROUND * Pending + Here /\ Pending \in Nat /\ Here \in 0 .. 18
  /\ Len(task_queue) \in Nat /\ Len(to_spawn) \in Nat /\ scancodes \in Nat /\ Due \in {0, 1}

LEMMA WorkParts == KeyboardInv => WorkIsANumber
<1>. SUFFICES ASSUME KeyboardInv PROVE WorkIsANumber
  OBVIOUS
<1>1. Len(task_queue) \in Nat /\ Len(to_spawn) \in Nat /\ scancodes \in Nat
  BY KeyboardAssumption DEF KeyboardInv, TypeOK
<1>2. Due \in {0, 1}
  BY DEF Due
<1>3. Pending \in Nat
  BY <1>1, <1>2 DEF Pending
<1>4. StepsFrom[pc] \in 0 .. 18
  <2>1. pc \in {"spawn", "pop", "poll", "new", "disable", "check",
                "enable_and_hlt", "enable", "halted", "panicked"} \cup InPoll
    BY DEF KeyboardInv, TypeOK
  <2>. QED
    BY <2>1, StepsFromValues DEF InPoll
<1>5. Here \in 0 .. 18
  BY <1>4 DEF Here
<1>6. WorkLeft = ROUND * Pending + Here
  BY Zenon DEF WorkLeft, Here
<1>. QED
  BY <1>1, <1>2, <1>3, <1>5, <1>6, Zenon DEF WorkIsANumber

\* So is the work left after a step.
LEMMA WorkPartsNext == KeyboardInv' => WorkIsANumber'
  BY WorkParts, PTL

\* A step with as much to deal with as before, nearer to hlt, leaves less work,
\* and so does a step that deals with something.
LEMMA LessWork ==
  ASSUME KeyboardInv, KeyboardInv',
         (Pending' = Pending /\ Here' < Here) \/ Pending' < Pending
  PROVE  WorkLeft' \in 0 .. WorkLeft - 1
<1>1. /\ WorkLeft = 20 * Pending + Here /\ Pending \in Nat /\ Here \in 0 .. 18
      /\ WorkLeft' = 20 * Pending' + Here' /\ Pending' \in Nat /\ Here' \in 0 .. 18
  BY WorkParts, WorkPartsNext, Zenon DEF WorkIsANumber, ROUND
<1>2. ASSUME NEW p \in Nat, NEW q \in Nat, NEW h \in 0 .. 18, NEW i \in 0 .. 18,
             (q = p /\ i < h) \/ q < p
      PROVE  20 * q + i \in 0 .. (20 * p + h) - 1
  BY <1>2
<1>. QED
  BY <1>1, <1>2, Zenon

\* A step to a place that is nearer to hlt, which leaves the queues alone and
\* whose wakeup that is due stays due.
LEMMA NearerLeavesLess ==
  ASSUME KeyboardInv, KeyboardInv', UNCHANGED <<task_queue, to_spawn, scancodes>>,
         Due' = Due, Here' < Here
  PROVE  WorkLeft' \in 0 .. WorkLeft - 1
<1>1. Pending' = Pending
  BY DEF Pending
<1>. QED
  BY <1>1, LessWork

\* No wakeup is due but in the middle of a registration.
LEMMA NothingDue ==
  /\ pc \notin {"wake", "store", "registered"} => Due = 0
  /\ pc' \notin {"wake", "store", "registered"} => Due' = 0
  BY DEF Due

\* The steps of run and sleep_if_idle that push and pop nothing, and the polls
\* that are done at once, bring the processor nearer to hlt.
LEMMA ExecutorAdvances ==
  ASSUME KeyboardInv, KeyboardInv',
         \/ /\ run \/ QueueEmpty \/ disable \/ CheckIdle \/ enable_and_hlt \/ enable
            /\ UNCHANGED kb_vars
         \/ PollOther \/ PollKeyboard \/ ScancodeStream_new \/ FastPopNone
         \/ TakeStart \/ TakeWaker \/ TakeEnd
  PROVE  WorkLeft' \in 0 .. WorkLeft - 1
<1>. USE StepsFromValues DEF Here, kb_vars, Goto
<1>1. UNCHANGED <<task_queue, to_spawn, scancodes>>
  BY DEF run, QueueEmpty, disable, CheckIdle, enable_and_hlt, enable, PollOther, PollReady,
    PollKeyboard, ScancodeStream_new, FastPopNone, TakeStart, TakeWaker, TakeEnd
<1>2. /\ pc \notin {"wake", "store", "registered"}
      /\ pc' \notin {"wake", "store", "registered"}
  BY DEF KeyboardInv, TypeOK, run, QueueEmpty, disable, CheckIdle, enable_and_hlt, enable,
    PollOther, PollReady, PollKeyboard, ScancodeStream_new, FastPopNone, TakeStart,
    TakeWaker, TakeEnd
<1>3. Due' = Due
  BY <1>2, NothingDue, Zenon
<1>4. CASE run \/ QueueEmpty \/ disable \/ CheckIdle \/ enable_and_hlt
  <2>1. Here' < Here
    BY <1>1, <1>4 DEF run, QueueEmpty, disable, CheckIdle, enable_and_hlt
  <2>. QED
    BY <1>1, <1>3, <2>1, NearerLeavesLess
<1>5. CASE enable
  <2>1. task_queue # <<>>
    BY <1>5 DEF enable, KeyboardInv, Sleeping
  <2>2. Here' < Here
    BY <1>1, <1>5, <2>1 DEF enable
  <2>. QED
    BY <1>1, <1>3, <2>2, NearerLeavesLess
<1>6. CASE PollOther \/ PollKeyboard
  <2>1. resume \in {"new", "next"}
    BY DEF KeyboardInv, TypeOK
  <2>2. Here' < Here
    BY <1>1, <1>6, <2>1 DEF PollOther, PollReady, PollKeyboard
  <2>. QED
    BY <1>1, <1>3, <2>2, NearerLeavesLess
<1>7. CASE ScancodeStream_new \/ FastPopNone
  <2>1. Here' < Here
    BY <1>1, <1>7 DEF ScancodeStream_new, FastPopNone
  <2>. QED
    BY <1>1, <1>3, <2>1, NearerLeavesLess
<1>8. CASE TakeStart \/ TakeWaker \/ TakeEnd
  <2>1. Here' < Here
    BY <1>1, <1>8 DEF TakeStart, TakeWaker, TakeEnd
  <2>. QED
    BY <1>1, <1>3, <2>1, NearerLeavesLess
<1>. QED
  BY <1>4, <1>5, <1>6, <1>7, <1>8

\* The steps of a registration bring the processor nearer to hlt: a wake in the
\* middle of one makes a wakeup due, and it stays due until it is pushed.
LEMMA RegistrationAdvances ==
  ASSUME KeyboardInv, KeyboardInv', Register \/ RegisterStore \/ Registered
  PROVE  WorkLeft' \in 0 .. WorkLeft - 1
<1>1. CASE Register
  <2>1. pc = "register" /\ waker_state = {}
    BY <1>1 DEF Register, KeyboardInv, WakerFlags
  <2>2. /\ pc' = "store" /\ waker_state' = {"REGISTERING"}
        /\ UNCHANGED <<task_queue, to_spawn, scancodes>>
    BY <1>1, <2>1 DEF Register, Goto
  <2>3. Due' = Due
    BY <2>1, <2>2 DEF Due
  <2>4. Here' < Here
    BY <2>1, <2>2, StepsFromValues DEF Here
  <2>. QED
    BY <2>2, <2>3, <2>4, NearerLeavesLess
<1>2. CASE RegisterStore
  <2>1. /\ pc = "store" /\ pc' = "registered"
        /\ UNCHANGED <<task_queue, to_spawn, scancodes, waker_state>>
    BY <1>2 DEF RegisterStore, Goto
  <2>2. Due' = Due
    BY <2>1 DEF Due
  <2>3. Here' < Here
    BY <2>1, StepsFromValues DEF Here
  <2>. QED
    BY <2>1, <2>2, <2>3, NearerLeavesLess
<1>3. CASE Registered
  <2>1. /\ pc = "registered" /\ pc' \in {"pop2", "wake"}
        /\ pc' = "pop2" <=> waker_state = {"REGISTERING"}
        /\ UNCHANGED <<task_queue, to_spawn, scancodes>>
    BY <1>3 DEF Registered, Goto
  <2>2. "REGISTERING" \in waker_state /\ waker_state \subseteq {"REGISTERING", "WAKING"}
    BY <2>1 DEF KeyboardInv, TypeOK, WakerFlags
  <2>3. "WAKING" \in waker_state <=> pc' = "wake"
    BY <2>1, <2>2
  <2>4. Due' = Due
    BY <2>1, <2>3 DEF Due
  <2>5. Here' < Here
    BY <2>1, StepsFromValues DEF Here
  <2>. QED
    BY <2>1, <2>4, <2>5, NearerLeavesLess
<1>. QED
  BY <1>1, <1>2, <1>3

\* The steps that spawn or pop a task, take a scancode or push a wakeup that was
\* due leave less to deal with, or are the end of a poll.
LEMMA DealingAdvances ==
  ASSUME KeyboardInv, KeyboardInv',
         \/ (spawn \/ PopTask) /\ UNCHANGED kb_vars
         \/ FastPop \/ SecondPop \/ RegisterWake
  PROVE  WorkLeft' \in 0 .. WorkLeft - 1
<1>. DEFINE q == Len(task_queue)     q1 == Len(task_queue')
            s == Len(to_spawn)       s1 == Len(to_spawn')
            k == scancodes           k1 == scancodes'
            d == Due                 d1 == Due'
            p == Pending             p1 == Pending'
<1>0. /\ task_queue \in Seq(Tasks) /\ to_spawn \in Seq(Tasks)
      /\ q \in Nat /\ s \in Nat /\ k \in Nat /\ d \in {0, 1}
      /\ q1 \in Nat /\ s1 \in Nat /\ k1 \in Nat /\ d1 \in {0, 1}
      /\ p = q + 2 * s + k + d /\ p1 = q1 + 2 * s1 + k1 + d1
  BY WorkParts, WorkPartsNext DEF WorkIsANumber, Pending, KeyboardInv, TypeOK
<1>1. CASE spawn /\ UNCHANGED kb_vars
  <2>1. /\ s1 = s - 1 /\ k1 = k /\ pc = "spawn" /\ Head(to_spawn) \in Tasks
        /\ pc' \in {"spawn", "panicked"}
    BY <1>0, <1>1 DEF spawn, PushTask, kb_vars
  <2>2. q1 <= q + 1
    <3>1. CASE Head(to_spawn) \in tasks
      BY <1>0, <1>1, <3>1 DEF spawn
    <3>2. CASE Head(to_spawn) \notin tasks
      <4>1. PushTask(Head(to_spawn), "spawn")
        BY <1>1, <3>2 DEF spawn
      <4>. QED
        BY <2>1, <4>1, Pushed DEF KeyboardInv
    <3>. QED
      BY <3>1, <3>2
  <2>3. d = 0 /\ d1 = 0
    BY <2>1, NothingDue
  <2>. HIDE DEF q, s, k, d, p, q1, s1, k1, d1, p1
  <2>4. p1 < p
    BY <1>0, <2>1, <2>2, <2>3
  <2>. QED
    BY <2>4, LessWork DEF p, p1
<1>2. CASE PopTask /\ UNCHANGED kb_vars
  <2>1. /\ q1 = q - 1 /\ s1 = s /\ k1 = k
        /\ pc = "pop" /\ pc' \in {"pop", "poll"}
    BY <1>0, <1>2 DEF PopTask, kb_vars
  <2>2. d = 0 /\ d1 = 0
    BY <2>1, NothingDue
  <2>. HIDE DEF q, s, k, d, p, q1, s1, k1, d1, p1
  <2>3. p1 < p
    BY <1>0, <2>1, <2>2
  <2>. QED
    BY <2>3, LessWork DEF p, p1
<1>3. CASE FastPop
  <2>1. /\ q1 = q /\ s1 = s /\ k1 = k - 1
        /\ pc = "next" /\ pc' = "next"
    BY <1>3 DEF FastPop, Goto
  <2>2. d = 0 /\ d1 = 0
    BY <2>1, NothingDue
  <2>. HIDE DEF q, s, k, d, p, q1, s1, k1, d1, p1
  <2>3. p1 < p
    BY <1>0, <2>1, <2>2
  <2>. QED
    BY <2>3, LessWork DEF p, p1
<1>4. CASE SecondPop /\ scancodes > 0
  <2>1. /\ q1 = q /\ s1 = s /\ k1 = k - 1
        /\ pc = "pop2" /\ pc' = "take"
    BY <1>4 DEF SecondPop, Goto
  <2>2. d = 0 /\ d1 = 0
    BY <2>1, NothingDue
  <2>. HIDE DEF q, s, k, d, p, q1, s1, k1, d1, p1
  <2>3. p1 < p
    BY <1>0, <2>1, <2>2
  <2>. QED
    BY <2>3, LessWork DEF p, p1
<1>5. CASE SecondPop /\ ~(scancodes > 0)
  <2>1. /\ UNCHANGED <<task_queue, to_spawn, scancodes>> /\ pc = "pop2" /\ pc' = "pop"
    BY <1>5 DEF SecondPop, PollPending
  <2>2. d = 0 /\ d1 = 0
    BY <2>1, NothingDue
  <2>3. Here' < Here
    BY <2>1, StepsFromValues DEF Here
  <2>. QED
    BY <2>1, <2>2, <2>3, NearerLeavesLess
<1>6. CASE RegisterWake
  <2>1. /\ pc = "wake" /\ current \in Tasks /\ PushTask(current, "pop2")
        /\ s1 = s /\ k1 = k
    BY <1>6 DEF RegisterWake, wake_task, kb_vars, KeyboardInv, TypeOK, Polling, InPoll
  <2>2. (pc' = "pop2" /\ q1 <= q + 1) \/ (pc' = "panicked" /\ q1 = q)
    <3>1. CASE q < TASK_QUEUE_CAP
      BY <2>1, <3>1, Pushed DEF KeyboardInv
    <3>2. CASE ~(q < TASK_QUEUE_CAP)
      BY <2>1, <3>2 DEF PushTask
    <3>. QED
      BY <3>1, <3>2
  <2>3. d = 1 /\ d1 = 0
    BY <2>1, <2>2, NothingDue DEF Due
  <2>. HIDE DEF q, s, k, d, p, q1, s1, k1, d1, p1
  <2>4. CASE p1 < p
    BY <2>4, LessWork DEF p, p1
  <2>5. CASE ~(p1 < p)
    <3>1. p1 = p /\ pc' = "pop2"
      BY <1>0, <2>1, <2>2, <2>3, <2>5
    <3>2. Here' < Here
      BY <2>1, <3>1, StepsFromValues DEF Here
    <3>. QED
      BY <3>1, <3>2, LessWork DEF p, p1
  <2>. QED
    BY <2>4, <2>5
<1>. QED
  BY <1>1, <1>2, <1>3, <1>4, <1>5, <1>6

\* An interrupt adds a scancode and a wakeup at most, and the steps from the
\* instruction after hlt to the next hlt.
LEMMA InterruptAdds ==
  ASSUME KeyboardInv, KeyboardInv', KeyboardInterrupt \/ OtherInterrupt
  PROVE  WorkLeft' <= WorkLeft + 2 * ROUND + StepsFrom.pop
<1>. DEFINE q == Len(task_queue)     q1 == Len(task_queue')
            s == Len(to_spawn)       s1 == Len(to_spawn')
            k == scancodes           k1 == scancodes'
            d == Due                 d1 == Due'
            p == Pending             p1 == Pending'
<1>0. /\ task_queue \in Seq(Tasks) /\ to_spawn \in Seq(Tasks)
      /\ q \in Nat /\ s \in Nat /\ k \in Nat /\ d \in {0, 1}
      /\ q1 \in Nat /\ s1 \in Nat /\ k1 \in Nat /\ d1 \in {0, 1}
      /\ p = q + 2 * s + k + d /\ p1 = q1 + 2 * s1 + k1 + d1
  BY WorkParts, WorkPartsNext DEF WorkIsANumber, Pending, KeyboardInv, TypeOK
<1>1. s1 = s /\ k1 <= k + 1
  BY <1>0 DEF KeyboardInterrupt, OtherInterrupt, kb_vars
<1>2. q1 + d1 <= q + d + 1
  <2>1. CASE OtherInterrupt
    <3>1. q1 = q /\ pc' = Resume /\ waker_state' = waker_state
      BY <2>1 DEF OtherInterrupt, kb_vars
    <3>2. d1 = d
      BY <3>1 DEF Due, Resume
    <3>. HIDE DEF q, s, k, d, p, q1, s1, k1, d1, p1
    <3>. QED
      BY <1>0, <3>1, <3>2
  <2>2. CASE KeyboardInterrupt /\ (DropsScancode \/ waker_state # {} \/ waker = NoTask)
    <3>1. q1 = q
      BY <2>2 DEF KeyboardInterrupt, WakeInHandler
    <3>. HIDE DEF q, s, k, d, p, q1, s1, k1, d1, p1
    <3>. QED
      BY <1>0, <3>1
  <2>3. CASE KeyboardInterrupt /\ ~DropsScancode /\ waker_state = {} /\ waker = Keyboard
    <3>1. PushTask(Keyboard, Resume) /\ waker_state' = {}
      BY <2>3, KeyboardAssumption DEF KeyboardInterrupt, WakeInHandler, wake_task
    <3>2. q1 <= q + 1 /\ pc' \in {Resume, "panicked"}
      BY <3>1, Pushed, KeyboardAssumption DEF KeyboardInv
    <3>3. d1 <= d
      BY <3>1, <3>2 DEF Due, Resume
    <3>. HIDE DEF q, s, k, d, p, q1, s1, k1, d1, p1
    <3>. QED
      BY <1>0, <3>2, <3>3
  <2>. QED
    BY <2>1, <2>2, <2>3 DEF KeyboardInv, Armed
<1>3. Here' <= Here + 5
  <2>1. pc' = pc \/ pc' = "pop" \/ pc' = "panicked"
    BY DEF KeyboardInterrupt, OtherInterrupt, WakeInHandler, wake_task, PushTask, Resume
  <2>. DEFINE h == Here   h1 == Here'
  <2>2. h \in 0 .. 18 /\ h1 \in 0 .. 18
    BY WorkParts, WorkPartsNext, Zenon DEF WorkIsANumber
  <2>3. pc' = "pop" \/ pc' = "panicked" => h1 \in {0, 1, 5}
    BY StepsFromValues DEF Here
  <2>4. pc' # "pop" /\ pc' = pc => h1 = h
    BY DEF Here
  <2>. HIDE DEF h, h1
  <2>5. h1 <= h + 5
    BY <2>1, <2>2, <2>3, <2>4
  <2>. QED
    BY <2>5 DEF h, h1
<1>. HIDE DEF q, s, k, d, p, q1, s1, k1, d1, p1
<1>4. p1 <= p + 2 /\ p \in Nat /\ p1 \in Nat
  BY <1>0, <1>1, <1>2
<1>5. /\ WorkLeft = 20 * Pending + Here /\ Here \in 0 .. 18
      /\ WorkLeft' = 20 * Pending' + Here' /\ Here' \in 0 .. 18
  BY WorkParts, WorkPartsNext, Zenon DEF WorkIsANumber, ROUND
<1>6. StepsFrom.pop = 5
  BY DEF StepsFrom
<1>7. ASSUME NEW m \in Nat, NEW n \in Nat, NEW h \in 0 .. 18, NEW i \in 0 .. 18,
             n <= m + 2, i <= h + 5
      PROVE  20 * n + i <= (20 * m + h) + 2 * 20 + 5
  BY <1>7
<1>. QED
  BY <1>3, <1>4, <1>5, <1>6, <1>7, Zenon DEF ROUND, p, p1

\* The executor does not spin: between two interrupts the processor comes to hlt
\* in a number of steps that is bounded by what was queued.
THEOREM ProcessorSettles == Spec => ForegroundSettles
<1>1. KeyboardInv /\ KeyboardInv' /\ [Next]_vars =>
        [/\ Foreground => WorkLeft' \in 0 .. WorkLeft - 1
         /\ KeyboardInterrupt \/ OtherInterrupt
              => WorkLeft' <= WorkLeft + 2 * ROUND + StepsFrom.pop]_vars
  <2>. SUFFICES ASSUME KeyboardInv, KeyboardInv'
                PROVE  /\ Foreground => WorkLeft' \in 0 .. WorkLeft - 1
                       /\ KeyboardInterrupt \/ OtherInterrupt
                            => WorkLeft' <= WorkLeft + 2 * ROUND + StepsFrom.pop
    OBVIOUS
  <2>1. ASSUME Foreground PROVE WorkLeft' \in 0 .. WorkLeft - 1
    BY <2>1, ExecutorAdvances, RegistrationAdvances, DealingAdvances
    DEF Foreground, ExecStep, KeyboardStep
  <2>. QED
    BY <2>1, InterruptAdds
<1>. QED
  BY <1>1, KeyboardInvariant, PTL DEF Spec, ForegroundSettles

=============================================================================
