------------------------------ MODULE Executor ------------------------------
(***************************************************************************)
(* The async executor (kernel/src/task/executor.rs) on the processor that  *)
(* boots the kernel: spawn, the loop of run_ready_tasks and sleep_if_idle, *)
(* and the wakers.                                                         *)
(*                                                                         *)
(* The executor runs in the foreground; interrupt handlers run between any *)
(* two of its steps while interrupts are on, each to its end, because an   *)
(* interrupt gate turns interrupts off.  pc is the foreground's place.     *)
(* What a task does when it is polled, and the interrupts, are in          *)
(* KeyboardTask.                                                           *)
(***************************************************************************)
EXTENDS Naturals, Sequences

CONSTANTS
  Tasks,            \* the tasks (a task is its TaskId: ids are unique)
  SPAWN_ORDER,      \* the order in which kernel_main spawns them
  TASK_QUEUE_CAP    \* capacity of the task queue: 100

ASSUME ExecutorAssumption ==
  /\ SPAWN_ORDER \in Seq(Tasks)
  /\ TASK_QUEUE_CAP \in Nat

VARIABLES
  pc,           \* where the foreground is
  to_spawn,     \* the tasks that kernel_main has still to spawn
  tasks,        \* the tasks that are not done
  task_queue,   \* the ids of the tasks to be polled
  waker_cache,  \* the tasks that have a cached waker
  current,      \* the task that was popped last
  interrupts    \* "on" or "off"

exec_vars == <<pc, to_spawn, tasks, task_queue, waker_cache, current, interrupts>>

NoTask == "none"

\* A push to the task queue that panics when the queue is full (expect).
PushTask(task_id, next) ==
  IF Len(task_queue) < TASK_QUEUE_CAP
    THEN task_queue' = Append(task_queue, task_id) /\ pc' = next
    ELSE pc' = "panicked" /\ UNCHANGED task_queue

\* TaskWaker::wake_task
wake_task(task_id, next) == PushTask(task_id, next)

\* Mutation: a task is not queued when it is spawned.
spawn_m ==
  /\ pc = "spawn"
  /\ to_spawn # <<>>
  /\ to_spawn' = Tail(to_spawn)
  /\ tasks' = tasks \cup {Head(to_spawn)}
  /\ UNCHANGED <<pc, task_queue, waker_cache, current, interrupts>>

\* kernel_main: the next spawn, or the start of run.
spawn ==
  /\ pc = "spawn"
  /\ to_spawn # <<>>
  /\ to_spawn' = Tail(to_spawn)
  /\ IF Head(to_spawn) \in tasks
       THEN pc' = "panicked" /\ UNCHANGED <<tasks, task_queue>>
       ELSE /\ tasks' = tasks \cup {Head(to_spawn)}
            /\ PushTask(Head(to_spawn), "spawn")
  /\ UNCHANGED <<waker_cache, current, interrupts>>

run ==
  /\ pc = "spawn"
  /\ to_spawn = <<>>
  /\ pc' = "pop"
  /\ UNCHANGED <<to_spawn, tasks, task_queue, waker_cache, current, interrupts>>

\* run_ready_tasks: pops a task and polls it with its cached waker, which is
\* made when there is none; an id whose task is done is skipped.
PopTask ==
  /\ pc = "pop"
  /\ task_queue # <<>>
  /\ task_queue' = Tail(task_queue)
  /\ current' = Head(task_queue)
  /\ IF current' \in tasks
       THEN waker_cache' = waker_cache \cup {current'} /\ pc' = "poll"
       ELSE UNCHANGED <<waker_cache, pc>>
  /\ UNCHANGED <<to_spawn, tasks, interrupts>>

\* run_ready_tasks: poll has returned Ready, or Pending.
PollReady ==
  /\ tasks' = tasks \ {current}
  /\ waker_cache' = waker_cache \ {current}
  /\ pc' = "pop"
  /\ UNCHANGED <<to_spawn, task_queue, current, interrupts>>

\* Mutation: the cached waker is dropped after every poll.
PollPending_m ==
  /\ pc' = "pop"
  /\ waker_cache' = waker_cache \ {current}
  /\ UNCHANGED <<to_spawn, tasks, task_queue, current, interrupts>>

PollPending ==
  /\ pc' = "pop"
  /\ UNCHANGED <<to_spawn, tasks, task_queue, waker_cache, current, interrupts>>

\* Mutation: interrupts stay on during the check.
QueueEmpty_m ==
  /\ pc = "pop"
  /\ task_queue = <<>>
  /\ pc' = "check"
  /\ UNCHANGED <<to_spawn, tasks, task_queue, waker_cache, current, interrupts>>

\* run_ready_tasks finds the queue empty, and sleep_if_idle turns interrupts
\* off: an interrupt may come in between.
QueueEmpty ==
  /\ pc = "pop"
  /\ task_queue = <<>>
  /\ pc' = "disable"
  /\ UNCHANGED <<to_spawn, tasks, task_queue, waker_cache, current, interrupts>>

disable ==
  /\ pc = "disable"
  /\ pc' = "check"
  /\ interrupts' = "off"
  /\ UNCHANGED <<to_spawn, tasks, task_queue, waker_cache, current>>

\* sleep_if_idle, the check: it goes to sleep or turns interrupts on again.
CheckIdle ==
  /\ pc = "check"
  /\ pc' = IF task_queue = <<>> THEN "enable_and_hlt" ELSE "enable"
  /\ UNCHANGED <<to_spawn, tasks, task_queue, waker_cache, current, interrupts>>

\* sti takes effect after the next instruction, which is hlt: no interrupt is
\* taken between the two.
enable_and_hlt ==
  /\ pc = "enable_and_hlt"
  /\ pc' = "halted"
  /\ interrupts' = "on"
  /\ UNCHANGED <<to_spawn, tasks, task_queue, waker_cache, current>>

enable ==
  /\ pc = "enable"
  /\ pc' = "pop"
  /\ interrupts' = "on"
  /\ UNCHANGED <<to_spawn, tasks, task_queue, waker_cache, current>>

ExecStep ==
  \/ spawn \/ run \/ PopTask
  \/ QueueEmpty \/ disable \/ CheckIdle \/ enable_and_hlt \/ enable

\* Where the foreground goes on after an interrupt: past hlt if it was halted.
Resume == IF pc = "halted" THEN "pop" ELSE pc

ExecInit ==
  /\ pc = "spawn"
  /\ to_spawn = SPAWN_ORDER
  /\ tasks = {}
  /\ task_queue = <<>>
  /\ waker_cache = {}
  /\ current = NoTask
  /\ interrupts = "on"
=============================================================================
