-------------------------------- MODULE Task --------------------------------
(***************************************************************************)
(* Execution of tasks on one Cortex-M core: the scheduler and the task     *)
(* services of kernel/task.c, driven by the exceptions of                  *)
(* arch/cortex_m/port_cm7.c.                                               *)
(*                                                                         *)
(* Interleaving.  A critical section (PRIMASK set) is one step.  Between   *)
(* two steps any interrupt may come: SysTick always, other interrupts in   *)
(* the modules that model them.  A requested PendSV is taken before the    *)
(* next thread instruction, so a task executes only while none is pending. *)
(* A call that blocks is cut where interrupts are enabled inside it:       *)
(*    "app"      the application's own code                                *)
(*    "attempt"  deadline computed, critical section not entered yet       *)
(*    "yield"    BLOCKED published, interrupts enabled, SVC not reached    *)
(*    "woken"    behind the SVC: the next instruction reads wait_result    *)
(*    "callback" the timer service runs the callback of a timer            *)
(***************************************************************************)
EXTENDS TaskTable

CONSTANTS
    Delay,          \* arguments given to JRT_TaskDelay
    Timeout,        \* timeouts given to the blocking calls
    SuspendTarget,  \* identifiers given to JRT_TaskSuspend / JRT_TaskResume
    JRT_TASK_ID_SELF

ASSUME TaskAssumption ==
    /\ Delay \subseteq Tick
    /\ Timeout \subseteq Tick
    /\ JRT_TASK_ID_SELF \notin Task

VARIABLES
    tasks,    \* the task table
    current,  \* g_current_task_index
    ticks,    \* g_kernel_ticks
    pendsv,   \* ICSR.PENDSVSET: a context switch is requested
    pc,       \* where each task is in its kernel call
    call      \* arguments and local variables of that call

taskVars == <<tasks, current, ticks, pendsv, pc, call>>

Operation == {"take", "send", "receive", "lock", "notify_take", "wait_bits",
              "delay_until"}

NoCall == [op |-> "none", object |-> NULL, timeout |-> 0, reserved |-> 0,
           deadline |-> [start |-> 0, tick |-> 0, forever |-> 0]]

Call == [op : Operation \cup {"none"}, object : Object \cup {NULL},
         timeout : Tick, reserved : {0, 1}, deadline : Deadline]

TaskTypeOK ==
    /\ tasks \in [Task -> TCB]
    /\ current \in Task
    /\ ticks \in Tick
    /\ pendsv \in {0, 1}
    /\ pc \in [Task -> {"app", "attempt", "yield", "woken", "callback"}]
    /\ call \in [Task -> Call]

\* After JRT_KernelInit and JRT_KernelStart; the counter starts at 0 and the
\* clock with the first task.
TaskInit ==
    /\ ticks = 0
    /\ tasks = JRT_KernelInit(ticks)
    /\ current = 0
    /\ pendsv = 0
    /\ pc = [t \in Task |-> "app"]
    /\ call = [t \in Task |-> NoCall]

\* Task t executes a thread-mode instruction.
Thread(t) == current = t /\ pendsv = 0

InApp(t) == Thread(t) /\ t \in ApplicationTask /\ pc[t] = "app"

-----------------------------------------------------------------------------
(* Exceptions.                                                             *)

(* Mutant: the preempted task keeps its RUNNING state.                     *)
PendSVNoPreempt ==
    /\ pendsv = 1
    /\ pendsv' = 0
    /\ LET next == next_index(tasks, current)
       IN  /\ current' = next
           /\ tasks' = [tasks EXCEPT ![next].state = "RUNNING"]
    /\ UNCHANGED <<ticks, pc, call>>

PendSV ==
    /\ pendsv = 1
    /\ pendsv' = 0
    /\ LET T == Preempted(tasks, current)
           next == next_index(T, current)
       IN  /\ current' = next
           /\ tasks' = [T EXCEPT ![next].state = "RUNNING"]
    /\ UNCHANGED <<ticks, pc, call>>

SysTickClock ==
    /\ ticks' = TickAdd(ticks, 1)
    /\ pendsv' = 1
    /\ UNCHANGED <<current, pc, call>>

(* Mutant: the tick does not request a context switch.                     *)
SysTickNoSwitch ==
    /\ ticks' = TickAdd(ticks, 1)
    /\ tasks' = tick_tasks(tasks, ticks')
    /\ UNCHANGED <<current, pendsv, pc, call>>

SysTick ==
    /\ SysTickClock
    /\ tasks' = tick_tasks(tasks, ticks')

-----------------------------------------------------------------------------
(* Supervisor calls of an application task.  svc_dispatch requests the     *)
(* switch whatever the service answered.                                   *)

Svc(T) ==
    /\ tasks' = T
    /\ pendsv' = 1
    /\ UNCHANGED <<current, ticks, pc, call>>

\* JRT_TaskYield, and JRT_BoardLedToggle, whose effect is outside the kernel.
TaskYield(t) ==
    /\ InApp(t)
    /\ Svc(tasks)

TaskDelay(t, delay) ==
    /\ InApp(t)
    /\ Svc(sleep_current(tasks, t, delay))

resolve(id, t) == IF id = JRT_TASK_ID_SELF THEN t ELSE id

TaskSuspend(t, id) ==
    /\ InApp(t)
    /\ Svc(kernel_task_suspend(tasks, t, resolve(id, t)))

\* JRT_TASK_ID_SELF is not accepted here.
TaskResume(t, id) ==
    /\ InApp(t)
    /\ Svc(kernel_task_resume(tasks, id))

-----------------------------------------------------------------------------
(* Pieces of a blocking call, used by the synchronisation modules.         *)

Enter(t, op, object, timeout) ==
    /\ InApp(t)
    /\ pc' = [pc EXCEPT ![t] = "attempt"]
    /\ call' = [call EXCEPT ![t] =
                    [op |-> op, object |-> object, timeout |-> timeout,
                     reserved |-> 0,
                     deadline |-> task_wait_deadline(ticks, timeout)]]
    /\ UNCHANGED <<tasks, current, ticks, pendsv>>

Attempt(t, op) == Thread(t) /\ pc[t] = "attempt" /\ call[t].op = op

Return(t) ==
    /\ pc' = [pc EXCEPT ![t] = "app"]
    /\ call' = [call EXCEPT ![t] = NoCall]
    /\ UNCHANGED <<current, ticks, pendsv>>

\* The deadline passed between entering the call and the critical section.
DeadlineElapsed(t) ==
    /\ call[t].deadline.forever = 0
    /\ Elapsed(ticks, call[t].deadline.start, call[t].deadline.tick)

(* Mutant: blocks without looking at the clock again.                      *)
BlockUnchecked(t, kind, T) ==
    /\ tasks' = [T EXCEPT ![t] =
           task_wait_begin_until(@, call[t].object, kind, call[t].deadline)]
    /\ pc' = [pc EXCEPT ![t] = "yield"]
    /\ UNCHANGED <<current, ticks, pendsv, call>>

\* task_block_until_locked on its blocking path, from table T.
Block(t, kind, T) ==
    /\ ~DeadlineElapsed(t)
    /\ tasks' = [T EXCEPT ![t] =
           task_wait_begin_until(@, call[t].object, kind, call[t].deadline)]
    /\ pc' = [pc EXCEPT ![t] = "yield"]
    /\ UNCHANGED <<current, ticks, pendsv, call>>

\* task_wait_begin of a call that tests and blocks in one critical section:
\* the deadline is computed there, and the call keeps no copy of it.
BlockNow(t, op, object, kind, timeout) ==
    /\ tasks' = [tasks EXCEPT ![t] =
           task_wait_begin(@, object, kind, ticks, timeout)]
    /\ pc' = [pc EXCEPT ![t] = "yield"]
    /\ call' = [call EXCEPT ![t] = [NoCall EXCEPT !.op = op, !.object = object,
                                                 !.timeout = timeout]]
    /\ UNCHANGED <<current, ticks, pendsv>>

\* A call that fails: a zero timeout, or a deadline already elapsed.
GiveUp(t) ==
    /\ call[t].timeout = 0 \/ DeadlineElapsed(t)
    /\ Return(t)
    /\ UNCHANGED tasks

\* arch_yield, behind the critical section that published BLOCKED.
ArchYield(t) ==
    /\ Thread(t)
    /\ pc[t] = "yield"
    /\ pc' = [pc EXCEPT ![t] = "woken"]
    /\ pendsv' = 1
    /\ UNCHANGED <<tasks, current, ticks, call>>

Woken(t, op) == Thread(t) /\ pc[t] = "woken" /\ call[t].op = op

-----------------------------------------------------------------------------
(* Task services and scheduling only.                                      *)

Services ==
    \E t \in ApplicationTask :
        \/ TaskYield(t)
        \/ \E d \in Delay : TaskDelay(t, d)
        \/ \E id \in SuspendTarget : TaskSuspend(t, id) \/ TaskResume(t, id)

TaskNext == PendSV \/ SysTick \/ Services

\* The clock runs and a requested switch is taken: both are hardware.
TaskFairness == WF_taskVars(PendSV) /\ WF_taskVars(SysTick)

TaskSpec == TaskInit /\ [][TaskNext]_taskVars /\ TaskFairness

-----------------------------------------------------------------------------
(* Properties.                                                             *)

(***************************************************************************)
(* The table agrees with the core: whenever thread code runs, the task it  *)
(* belongs to is RUNNING, unless it is on its way from publishing a        *)
(* blocked state to the SVC; and no other task is ever marked RUNNING.     *)
(* So no step leaves a blocked, sleeping or suspended task executing.      *)
(***************************************************************************)
ExecutingIsRunning ==
    /\ \A t \in Task : tasks[t].state = "RUNNING" => t = current
    /\ (pendsv = 0 /\ pc[current] # "yield") =>
            tasks[current].state = "RUNNING"

(***************************************************************************)
(* kernel_check_invariants_locked never fails, so tick_tasks never halts   *)
(* the system: it holds between any two steps, not only at the tick.       *)
(***************************************************************************)
KernelInvariantsHold == kernel_check_invariants(tasks)

(***************************************************************************)
(* No finite wait outlives its deadline: a task that is still BLOCKED has  *)
(* a deadline in the future, across wraparound of the tick counter.        *)
(***************************************************************************)
NoOverdueWaiter ==
    \A t \in Task :
        tasks[t].state = "BLOCKED" => ~WaitExpired(tasks[t], ticks)

(***************************************************************************)
(* The kernel always has something to run, and it is never an application  *)
(* service that makes it run or stop: the idle task stays runnable.        *)
(***************************************************************************)
IdleRunnable == tasks[idle_index].state \in {"READY", "RUNNING"}

(***************************************************************************)
(* The inductive invariant behind the properties above.                    *)
(***************************************************************************)
TaskInv ==
    /\ TaskTypeOK
    /\ ExecutingIsRunning
    /\ KernelInvariantsHold
    /\ NoOverdueWaiter
    /\ IdleRunnable

(***************************************************************************)
(* A task is preempted by priority only: when thread code runs right after *)
(* a scheduling decision, no READY task has a higher priority than the     *)
(* task that runs (docs/RTOS.md, "Higher numeric priorities run first").   *)
(***************************************************************************)
HighestPriorityRuns ==
    [][pendsv = 1 /\ pendsv' = 0 =>
        \A t \in Task : tasks'[t].state = "READY" =>
            tasks'[t].priority <= tasks'[current'].priority]_taskVars

\* Tasks no other task can outrank in a system without inheritance.
TopTask ==
    {t \in ApplicationTask :
        \A u \in Task \ {timer_service_task_index} :
            base_priority[u] <= base_priority[t]}

(***************************************************************************)
(* Equal priorities share the core: a READY task of the top priority runs  *)
(* or is suspended, even if its peers never yield (docs/RTOS.md, "equal    *)
(* priorities are selected round-robin").                                  *)
(***************************************************************************)
RoundRobin ==
    \A t \in TopTask :
        tasks[t].state = "READY" ~>
            \/ current = t /\ tasks[t].state = "RUNNING"
            \/ tasks[t].state = "SUSPENDED"

(***************************************************************************)
(* A sleeping task is made READY again.                                    *)
(***************************************************************************)
SleepEnds ==
    \A t \in ApplicationTask :
        tasks[t].state = "SLEEPING" ~> tasks[t].state # "SLEEPING"
=============================================================================
