------------------------------ MODULE Scheduler ------------------------------
(***************************************************************************)
(* The priority scheduler of the kernel (core/sched/scheduler.c), driven   *)
(* by the exceptions that reach it: the timer interrupt, system calls and  *)
(* user page faults.                                                       *)
(*                                                                         *)
(* The kernel runs on one core with interrupts masked, so nothing preempts *)
(* a handler; but the hardware counter keeps running, and                  *)
(* sched_pending_check reads it once per queue element.  A pass through    *)
(* schedule() is therefore a sequence of steps, one per element of the     *)
(* pending queue and one for the selection, between which the counter may  *)
(* advance.                                                                *)
(*                                                                         *)
(* A running task is not on a queue of its own: schedule() moves it to the *)
(* tail of g_pendingtasks, with its old readytime, and the next pass wakes *)
(* it like a sleeper.  Round robin, and the priority bitmap being right,   *)
(* both rest on this.                                                      *)
(***************************************************************************)
EXTENDS Lists, Ticks

CONSTANTS
  UserTasks,                 \* tasks created like root_task
  idle_task,                 \* the idle task's TCB
  CONFIG_MAX_TASK_PRIORITY,  \* number of priorities, 0 is the highest
  sched_priority,            \* task -> priority, fixed by task_create
  Requests,                  \* timespecs passed to nanosleep
  MaxClock                   \* bound on the hardware counter

Tasks == UserTasks \cup {idle_task}
Priorities == 0 .. CONFIG_MAX_TASK_PRIORITY - 1
\* MAX_PRIORITY_BITMAP_INDEX words of 8 bits each.
Rows == 0 .. (CONFIG_MAX_TASK_PRIORITY \div 8) - 1
Columns == 0 .. 7

ASSUME SchedulerAssumption ==
  /\ idle_task \notin UserTasks
  /\ CONFIG_MAX_TASK_PRIORITY \in {8, 16, 24, 32, 40, 48, 56, 64}
  /\ sched_priority \in [Tasks -> Priorities]
  /\ Requests \subseteq [tv_sec : Nat, tv_nsec : Nat]
  /\ MaxClock \in Nat \ {0}
  /\ MaxClock < TICKS_MOD \div 2

VARIABLES
  g_current_task,
  g_readytorun,       \* priority -> queue of tasks
  g_pendingtasks,     \* queue of sleeping tasks and of the running one
  g_priority_bitmap,  \* row -> set of the bits that are 1
  g_priority_group,   \* set of the bits that are 1
  task_state,
  readytime,
  clk,                \* the hardware counter, cntvct_el0
  pc,                 \* where the processor is, see TypeOK
  pos                 \* cursor of the loop in sched_pending_check

queues == <<g_readytorun, g_pendingtasks>>
bits == <<g_priority_bitmap, g_priority_group>>
vars == <<g_current_task, queues, bits, task_state, readytime, clk, pc, pos>>

TaskStates == {"INACTIVE", "READYTORUN", "RUNNING", "SLEEPING"}

\* The control states: init_kernel before interrupts are enabled, the idle
\* loop it ends in, a task running after an eret, the loop of
\* sched_pending_check, and the endless loop of a failed assertion.
TypeOK ==
  /\ g_current_task \in Tasks
  /\ g_readytorun \in [Priorities -> Seq(Tasks)]
  /\ g_pendingtasks \in Seq(Tasks)
  /\ g_priority_bitmap \in [Rows -> SUBSET Columns]
  /\ g_priority_group \in SUBSET Rows
  /\ task_state \in [Tasks -> TaskStates]
  /\ readytime \in [Tasks -> Nat]
  /\ clk \in 1 .. MaxClock
  /\ pc \in {"boot", "bootidle", "run", "check", "halt"}
  /\ pos \in Nat \ {0}
-----------------------------------------------------------------------------
(* The priority bitmap.                                                    *)

\* Mutant: the table holds the index of the highest 1 bit.
g_priority_map_highest(byte) ==
  IF byte = {} THEN 0 ELSE CHOOSE b \in byte : \A c \in byte : b >= c

\* g_priority_map: index of the lowest 1 bit of a byte, and 0 for 0.
g_priority_map(byte) ==
  IF byte = {} THEN 0 ELSE CHOOSE b \in byte : \A c \in byte : b <= c

bit_is_set(p) == p % 8 \in g_priority_bitmap[p \div 8]

set_priority_bits(p) ==
  /\ g_priority_group' = g_priority_group \cup {p \div 8}
  /\ g_priority_bitmap' = [g_priority_bitmap EXCEPT ![p \div 8] = @ \cup {p % 8}]

\* Mutant: the bit is never cleared.
clear_priority_bits_never(p, ready) == UNCHANGED bits

\* The tail of sched_block, sched_sleep and sched_detach; ready is the queue
\* of priority p after the task has been unlinked.
clear_priority_bits(p, ready) ==
  IF ready = <<>>
  THEN /\ g_priority_bitmap' = [g_priority_bitmap EXCEPT ![p \div 8] = @ \ {p % 8}]
       /\ g_priority_group' = IF g_priority_bitmap[p \div 8] \ {p % 8} = {}
                              THEN g_priority_group \ {p \div 8}
                              ELSE g_priority_group
  ELSE UNCHANGED bits
-----------------------------------------------------------------------------
(* Scheduler operations.                                                   *)

\* The bits of the freshly cleared bitmap once priority p is set.
initial_bitmap(p) == [r \in Rows |-> IF r = p \div 8 THEN {p % 8} ELSE {}]

\* sched_init, after task_create has initialised every TCB.
sched_init ==
  /\ g_readytorun = [p \in Priorities |->
       IF p = sched_priority[idle_task] THEN <<idle_task>> ELSE <<>>]
  /\ g_pendingtasks = <<>>
  /\ g_priority_bitmap = initial_bitmap(sched_priority[idle_task])
  /\ g_priority_group = {sched_priority[idle_task] \div 8}
  /\ task_state = [t \in Tasks |-> IF t = idle_task THEN "READYTORUN" ELSE "INACTIVE"]
  /\ g_current_task = idle_task

sched_attach(t) ==
  /\ task_state' = [task_state EXCEPT ![t] = "READYTORUN"]
  /\ g_readytorun' = [g_readytorun EXCEPT ![sched_priority[t]] = list_add_tail(@, t)]
  /\ set_priority_bits(sched_priority[t])

sched_sleep(t) ==
  LET ready == list_del(g_readytorun[sched_priority[t]], t) IN
  /\ g_readytorun' = [g_readytorun EXCEPT ![sched_priority[t]] = ready]
  /\ task_state' = [task_state EXCEPT ![t] = "SLEEPING"]
  /\ clear_priority_bits(sched_priority[t], ready)
  /\ g_pendingtasks' = list_add_tail(list_del(g_pendingtasks, t), t)

\* Mutant: the task is not unlinked from g_pendingtasks.
wake_and_attach_linked(t) ==
  /\ UNCHANGED g_pendingtasks
  /\ sched_attach(t)

\* sched_wake followed by sched_attach, which sets the same bits again.
wake_and_attach(t) ==
  /\ g_pendingtasks' = list_del(g_pendingtasks, t)
  /\ sched_attach(t)

\* Entry of schedule(): the first element of g_pendingtasks is next.
enter_schedule ==
  /\ pc' = "check"
  /\ pos' = 1
-----------------------------------------------------------------------------
(* The machine: the counter runs at all times.                             *)

Tick ==
  /\ clk < MaxClock
  /\ clk' = clk + 1
  /\ UNCHANGED <<g_current_task, queues, bits, task_state, readytime, pc, pos>>

Init ==
  /\ sched_init
  /\ readytime = [t \in Tasks |-> 0]
  /\ clk = 1
  /\ pc = "boot"
  /\ pos = 1

\* root_task_create ends with sched_attach.
RootTaskCreate(t) ==
  /\ pc = "boot"
  /\ task_state[t] = "INACTIVE"
  /\ sched_attach(t)
  /\ UNCHANGED <<g_current_task, g_pendingtasks, readytime, clk, pc, pos>>

\* arch_local_irq_enable() and idle() at the end of init_kernel.
EnableIrq ==
  /\ pc = "boot"
  /\ \A t \in UserTasks : task_state[t] # "INACTIVE"
  /\ pc' = "bootidle"
  /\ UNCHANGED <<g_current_task, queues, bits, task_state, readytime, clk, pos>>

\* timer_handler rearms the timer and calls schedule.
TimerIrq ==
  /\ pc \in {"bootidle", "run"}
  /\ enter_schedule
  /\ UNCHANGED <<g_current_task, queues, bits, task_state, readytime, clk>>

\* svc_handler with a call that leaves the scheduler alone, or an unknown number.
Svc ==
  /\ pc = "run"
  /\ g_current_task \in UserTasks
  /\ enter_schedule
  /\ UNCHANGED <<g_current_task, queues, bits, task_state, readytime, clk>>

\* svc_handler with sys_nanosleep; the guard on the wake-up time is the bound.
SvcNanosleep(req) ==
  /\ pc = "run"
  /\ g_current_task \in UserTasks
  /\ clk + sleep_ticks(req) < MaxClock
  /\ readytime' = [readytime EXCEPT ![g_current_task] = nanosleep_readytime(clk, req)]
  /\ sched_sleep(g_current_task)
  /\ enter_schedule
  /\ UNCHANGED <<g_current_task, clk>>

\* do_page_fault for an address inside the heap.
HeapFault ==
  /\ pc = "run"
  /\ g_current_task \in UserTasks
  /\ enter_schedule
  /\ UNCHANGED <<g_current_task, queues, bits, task_state, readytime, clk>>

\* Any other exception from a user task ends in PANIC().
FatalTrap ==
  /\ pc = "run"
  /\ g_current_task \in UserTasks
  /\ pc' = "halt"
  /\ UNCHANGED <<g_current_task, queues, bits, task_state, readytime, clk, pos>>

Halted == pc = "halt" /\ UNCHANGED vars

\* Mutant: sleepers are passed over.
PendingCheckRunning ==
  /\ pc = "check"
  /\ pos <= Len(g_pendingtasks)
  /\ LET t == g_pendingtasks[pos] IN
     \/ /\ is_due(readytime[t], clk) /\ task_state[t] = "RUNNING"
        /\ wake_and_attach(t)
        /\ UNCHANGED pos
     \/ /\ ~ is_due(readytime[t], clk) \/ task_state[t] # "RUNNING"
        /\ pos' = pos + 1
        /\ UNCHANGED <<queues, bits, task_state>>
  /\ UNCHANGED <<g_current_task, readytime, clk, pc>>

\* One iteration of sched_pending_check.
PendingCheck ==
  /\ pc = "check"
  /\ pos <= Len(g_pendingtasks)
  /\ LET t == g_pendingtasks[pos] IN
     \/ /\ is_due(readytime[t], clk)
        /\ wake_and_attach(t)
        /\ UNCHANGED pos
     \/ /\ ~ is_due(readytime[t], clk)
        /\ pos' = pos + 1
        /\ UNCHANGED <<queues, bits, task_state>>
  /\ UNCHANGED <<g_current_task, readytime, clk, pc>>

\* The priority schedule() looks at.
best_priority ==
  LET row == g_priority_map(g_priority_group)
      col == g_priority_map(g_priority_bitmap[row])
  IN  row * 8 + col

\* Mutant: a task that is still among the best goes on.
ScheduleKeepsCurrent ==
  /\ pc = "check"
  /\ pos > Len(g_pendingtasks)
  /\ pc' = "run"
  /\ LET ready == g_readytorun[best_priority]
         others == IF g_current_task \in Range(ready) THEN {} ELSE DOMAIN ready
     IN  \/ \E i \in others :
              /\ \A j \in others : i <= j
              /\ task_state' = [task_state EXCEPT ![ready[i]] = "RUNNING"]
              /\ g_current_task' = ready[i]
              /\ g_readytorun' = [g_readytorun EXCEPT ![best_priority] = list_del(ready, ready[i])]
              /\ g_pendingtasks' = list_add_tail(g_pendingtasks, ready[i])
         \/ /\ others = {}
            /\ UNCHANGED <<task_state, g_current_task, queues>>
  /\ UNCHANGED <<bits, readytime, clk, pos>>

\* The first task of that priority other than the current one, if any, is
\* moved to the tail of g_pendingtasks and switched to; the exit path then
\* restores the context of g_current_task.
Schedule ==
  /\ pc = "check"
  /\ pos > Len(g_pendingtasks)
  /\ pc' = "run"
  /\ LET ready == g_readytorun[best_priority]
         others == {i \in DOMAIN ready : ready[i] # g_current_task}
     IN  \/ \E i \in others :
              /\ \A j \in others : i <= j
              /\ task_state' = [task_state EXCEPT ![ready[i]] = "RUNNING"]
              /\ g_current_task' = ready[i]
              /\ g_readytorun' = [g_readytorun EXCEPT ![best_priority] = list_del(ready, ready[i])]
              /\ g_pendingtasks' = list_add_tail(g_pendingtasks, ready[i])
         \/ /\ others = {}
            /\ UNCHANGED <<task_state, g_current_task, queues>>
  /\ UNCHANGED <<bits, readytime, clk, pos>>

Next ==
  \/ Tick
  \/ \E t \in UserTasks : RootTaskCreate(t)
  \/ EnableIrq
  \/ TimerIrq
  \/ Svc
  \/ HeapFault
  \/ \E req \in Requests : SvcNanosleep(req)
  \/ FatalTrap
  \/ Halted
  \/ PendingCheck
  \/ Schedule

Spec == Init /\ [][Next]_vars

\* The counter never stops, handlers run to their end, and timer_handler
\* rearms the timer on every interrupt, so one always comes.
FairSpec ==
  /\ Spec
  /\ WF_vars(Tick)
  /\ WF_vars(EnableIrq)
  /\ \A t \in UserTasks : WF_vars(RootTaskCreate(t))
  /\ WF_vars(TimerIrq)
  /\ WF_vars(PendingCheck)
  /\ WF_vars(Schedule)
-----------------------------------------------------------------------------
(* Properties.                                                             *)

Activated(t) == task_state[t] # "INACTIVE"

\* link_head of every activated task is on exactly one queue, once: on the
\* ready queue of its own priority or on g_pendingtasks (sched_attach,
\* sched_wake, sched_sleep and schedule hand it from one to the other).
QueueIntegrity ==
  /\ IsInjective(g_pendingtasks)
  /\ \A p \in Priorities :
       /\ IsInjective(g_readytorun[p])
       /\ Range(g_readytorun[p]) \cap Range(g_pendingtasks) = {}
       /\ \A t \in Range(g_readytorun[p]) : Activated(t) /\ sched_priority[t] = p
  /\ \A t \in Range(g_pendingtasks) : Activated(t)
  /\ \A t \in Tasks : Activated(t) =>
       t \in Range(g_pendingtasks) \cup Range(g_readytorun[sched_priority[t]])

\* Every non-empty ready queue can be found by schedule() through the two
\* levels of the priority bitmap, and a group bit says exactly that its row
\* has a bit.
BitmapFindsReady ==
  /\ \A p \in Priorities : g_readytorun[p] # <<>> => bit_is_set(p)
  /\ \A r \in Rows : r \in g_priority_group <=> g_priority_bitmap[r] # {}

\* schedule() takes the last task of a queue off it without clearing the
\* bitmap.  Such a left-over bit is always that of the running task, which is
\* still linked on g_pendingtasks and will be given back its place.
StaleBitIsRunner ==
  \A p \in Priorities : bit_is_set(p) /\ g_readytorun[p] = <<>> =>
    /\ sched_priority[g_current_task] = p
    /\ task_state[g_current_task] = "RUNNING"
    /\ g_current_task \in Range(g_pendingtasks)

\* Every ready queue can be found through the priority bitmap, and the bitmap
\* leads schedule() to no queue it would find empty, but that of the running
\* task, which is attached again before the next look.
BitmapExact == BitmapFindsReady /\ StaleBitIsRunner

\* RUNNING marks g_current_task and no other task: whoever schedule() switches
\* away from has been re-attached or put to sleep before.
SingleRunner ==
  \A t \in Tasks : task_state[t] = "RUNNING" => t = g_current_task

\* Preemption by priority: when the kernel returns to a task, no task on a
\* ready queue has a higher priority, however stale the bitmap.
HighestPriorityRuns ==
  pc = "run" => \A p \in Priorities :
    g_readytorun[p] # <<>> => sched_priority[g_current_task] <= p

\* A task that called nanosleep does not get the processor back before its
\* readytime has passed.
NoEarlyResume ==
  pc = "run" =>
    /\ task_state[g_current_task] # "SLEEPING"
    /\ readytime[g_current_task] < clk

\* A sleeper leaves SLEEPING, unless the machine halts.
SleeperWakes ==
  \A t \in UserTasks :
    task_state[t] = "SLEEPING" ~> (task_state[t] # "SLEEPING" \/ pc = "halt")

\* Round robin: a ready task of the highest priority in the system gets the
\* processor (timer_handler calls schedule every CONFIG_RR_INTERVAL).
RoundRobin ==
  \A t \in UserTasks :
    (\A u \in Tasks : sched_priority[t] <= sched_priority[u]) =>
      (task_state[t] = "READYTORUN" ~>
         ((pc = "run" /\ g_current_task = t) \/ pc = "halt"))

\* task.h: READYTORUN is "But not running", RUNNING is "And running".
RunningTaskIsMarked ==
  pc = "run" => task_state[g_current_task] = "RUNNING"
-----------------------------------------------------------------------------
(* The parts that make the safety properties above inductive.              *)

\* The queue a task is on tells its state.
StateMatchesQueue ==
  /\ \A p \in Priorities : \A t \in Range(g_readytorun[p]) :
       task_state[t] = "READYTORUN"
  /\ \A t \in Range(g_pendingtasks) : task_state[t] \in {"RUNNING", "SLEEPING"}

\* The readytime of a task that is not asleep has passed: this is what makes
\* sched_pending_check give a running task its place in a ready queue back.
AwakeIsDue ==
  /\ \A t \in Tasks : task_state[t] # "SLEEPING" => readytime[t] < clk
  /\ \A t \in Tasks : readytime[t] < MaxClock

\* idle() makes no system call.
IdleNeverSleeps == task_state[idle_task] \in {"READYTORUN", "RUNNING"}

\* What the loop of sched_pending_check has passed over is asleep.
PassedOverIsAsleep ==
  pc = "check" => \A i \in DOMAIN g_pendingtasks :
    i < pos => task_state[g_pendingtasks[i]] = "SLEEPING"

\* Until the first interrupt init_kernel runs as the idle task.
BootState ==
  pc \in {"boot", "bootidle"} =>
    /\ g_current_task = idle_task
    /\ g_pendingtasks = <<>>

IInv ==
  /\ TypeOK
  /\ QueueIntegrity
  /\ BitmapFindsReady
  /\ StaleBitIsRunner
  /\ SingleRunner
  /\ HighestPriorityRuns
  /\ NoEarlyResume
  /\ StateMatchesQueue
  /\ AwakeIsDue
  /\ IdleNeverSleeps
  /\ PassedOverIsAsleep
  /\ BootState
=============================================================================
