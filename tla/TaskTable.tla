------------------------------ MODULE TaskTable ------------------------------
(***************************************************************************)
(* The task table of the justRT kernel and the pure functions on it        *)
(* (kernel/task.c).  Every kernel service runs them inside a critical      *)
(* section, so each one maps a table to the next table in one step; the    *)
(* modules that EXTEND this one decide when they run.                      *)
(*                                                                         *)
(* Tasks are array indices: the application's tasks, then the timer        *)
(* service, then the idle task, as JRT_KernelInit lays them out.  uint32   *)
(* tick arithmetic is arithmetic modulo TICK_MOD.                          *)
(***************************************************************************)
EXTENDS Integers

CONSTANTS
    application_task_count,     \* number of tasks the application configured
    base_priority,              \* configured priority of every task index
    JRT_MAX_TASK_PRIORITY,      \* the largest priority a task may have
    TICK_MOD,                   \* 2^32 in the code: the range of a tick count
    Object,                     \* synchronisation objects a task can wait on
    timer_service_wait_object,  \* what the timer service waits on
    NULL                        \* the null pointer (0U)

task_count == application_task_count + 2
Task == 0 .. task_count - 1
ApplicationTask == 0 .. application_task_count - 1
timer_service_task_index == application_task_count
idle_index == task_count - 1

\* "No task" answers of the code (UINT32_MAX, or selected_index = task_count).
NoTask == task_count

Priority == 0 .. JRT_MAX_TASK_PRIORITY

Tick == 0 .. TICK_MOD - 1
JRT_WAIT_FOREVER == TICK_MOD - 1

ASSUME TaskTableAssumption ==
    /\ application_task_count \in Nat \ {0}
    /\ JRT_MAX_TASK_PRIORITY \in Nat \ {0}
    /\ base_priority \in [Task -> Priority]
    /\ base_priority[idle_index] = 0
    /\ TICK_MOD \in Nat /\ TICK_MOD > 2
    /\ timer_service_wait_object \notin Object
    /\ NULL \notin Object \cup {timer_service_wait_object}

State == {"READY", "RUNNING", "SLEEPING", "BLOCKED", "SUSPENDED"}

WaitKind == {"SEMAPHORE", "QUEUE_SEND", "QUEUE_RECEIVE", "MUTEX",
             "NOTIFICATION", "EVENT_GROUP", "TIMER_SERVICE"}

\* The fields of task_t that decide scheduling and waiting.
TCB == [state : State,
        sleep_ticks : Tick,
        priority : Priority,
        wait_object : Object \cup {timer_service_wait_object, NULL},
        wait_kind : WaitKind \cup {"NONE"},
        wait_start : Tick,
        wait_deadline : Tick,
        wait_forever : {0, 1},
        wait_result : {0, 1}]

Deadline == [start : Tick, tick : Tick, forever : {0, 1}]

-----------------------------------------------------------------------------
(* uint32_t tick arithmetic.                                               *)

(* Mutant: the counter does not wrap.                                      *)
TickAddNoWrap(a, b) == a + b

TickAdd(a, b) == (a + b) % TICK_MOD
TickSub(a, b) == (a - b) % TICK_MOD

(* The absolute deadline of a wait that starts at tick now.                *)
task_wait_deadline(now, timeout) ==
    [start   |-> now,
     tick    |-> TickAdd(now, timeout),
     forever |-> IF timeout = JRT_WAIT_FOREVER THEN 1 ELSE 0]

(* Mutant: an absolute comparison, wrong once the counter wraps.           *)
ElapsedAbsolute(now, start, tick) == now >= tick

(* Has a finite deadline elapsed at tick now?  Distances from start are    *)
(* compared, so that wraparound does not matter.                           *)
Elapsed(now, start, tick) == TickSub(now, start) >= TickSub(tick, start)

-----------------------------------------------------------------------------
(* Beginning and ending a wait.                                            *)

task_wait_begin_until(task, object, kind, deadline) ==
    [task EXCEPT !.wait_object = object,
                 !.wait_kind = kind,
                 !.wait_start = deadline.start,
                 !.wait_deadline = deadline.tick,
                 !.wait_forever = deadline.forever,
                 !.wait_result = 0,
                 !.state = "BLOCKED"]

task_wait_begin(task, object, kind, now, timeout) ==
    task_wait_begin_until(task, object, kind, task_wait_deadline(now, timeout))

(* Mutant: the metadata of the finished wait is left behind.               *)
WaitEndKeepsKind(task, result) ==
    [task EXCEPT !.state = "READY", !.wait_result = result,
                 !.wait_object = NULL, !.wait_start = 0,
                 !.wait_deadline = 0, !.wait_forever = 0]

task_wait_end(task, result) ==
    [task EXCEPT !.state = "READY",
                 !.wait_result = result,
                 !.wait_object = NULL,
                 !.wait_kind = "NONE",
                 !.wait_start = 0,
                 !.wait_deadline = 0,
                 !.wait_forever = 0]

-----------------------------------------------------------------------------
(* Waking a waiter: the highest priority, the lowest index among equals.   *)

Waiters(T, object, kind) ==
    {i \in Task : /\ T[i].state = "BLOCKED"
                  /\ T[i].wait_object = object
                  /\ T[i].wait_kind = kind}

Selected(T, W) ==
    CHOOSE i \in W : \A j \in W :
        \/ T[j].priority < T[i].priority
        \/ T[j].priority = T[i].priority /\ i <= j

task_wake_get_id(T, object, kind) ==
    LET W == Waiters(T, object, kind)
    IN  IF W = {} THEN NoTask ELSE Selected(T, W)

task_wake(T, object, kind) ==
    LET id == task_wake_get_id(T, object, kind)
    IN  IF id = NoTask THEN T ELSE [T EXCEPT ![id] = task_wait_end(@, 1)]

-----------------------------------------------------------------------------
(* The per-task part of tick_tasks: count a sleeper down, end an expired   *)
(* wait with result 0.                                                     *)

WaitExpired(task, now) ==
    /\ task.state = "BLOCKED"
    /\ task.wait_forever = 0
    /\ Elapsed(now, task.wait_start, task.wait_deadline)

(* Mutant: the count is tested before it is decremented.                   *)
SleeperTestsFirst(task) ==
    [task EXCEPT !.sleep_ticks = @ - 1,
                 !.state = IF task.sleep_ticks = 0 THEN "READY" ELSE @]

tick_sleeper(task) ==
    [task EXCEPT !.sleep_ticks = @ - 1,
                 !.state = IF task.sleep_ticks = 1 THEN "READY" ELSE @]

(* Mutant: an expired waiter is reported as served.                        *)
TickReportsSuccess(task, now) ==
    CASE task.state = "SLEEPING" /\ task.sleep_ticks > 0 -> tick_sleeper(task)
      [] WaitExpired(task, now) -> task_wait_end(task, 1)
      [] OTHER -> task

tick_task(task, now) ==
    CASE task.state = "SLEEPING" /\ task.sleep_ticks > 0 -> tick_sleeper(task)
      [] WaitExpired(task, now) -> task_wait_end(task, 0)
      [] OTHER -> task

tick_tasks(T, now) == [i \in Task |-> tick_task(T[i], now)]

-----------------------------------------------------------------------------
(* The scheduler: the best priority among the READY tasks, and the first   *)
(* task after the current one that has it.                                 *)

Preempted(T, cur) ==
    [T EXCEPT ![cur].state = IF @ = "RUNNING" THEN "READY" ELSE @]

Best(T) == {i \in Task : /\ T[i].state = "READY"
                         /\ \A j \in Task : T[j].state = "READY" =>
                                T[j].priority <= T[i].priority}

\* Distance of index i in the scan that starts behind cur and wraps around.
ScanOffset(cur, i) == IF i > cur THEN i - cur ELSE i + task_count - cur

(* Mutant: the first READY task behind the current one, whatever its       *)
(* priority.                                                               *)
NextReady(T, cur) ==
    LET Ready == {i \in Task : T[i].state = "READY"}
    IN  IF Ready = {} THEN cur
        ELSE CHOOSE i \in Ready :
                \A j \in Ready : ScanOffset(cur, i) <= ScanOffset(cur, j)

(* Mutant: the scan starts at index 0, so equals are not rotated.          *)
NextFirst(T, cur) ==
    IF Best(T) = {} THEN cur
    ELSE CHOOSE i \in Best(T) : \A j \in Best(T) : i <= j

next_index(T, cur) ==
    IF Best(T) = {} THEN cur
    ELSE CHOOSE i \in Best(T) :
            \A j \in Best(T) : ScanOffset(cur, i) <= ScanOffset(cur, j)

-----------------------------------------------------------------------------
(* Services of the SVC dispatcher that change the table.                   *)

sleep_current(T, cur, delay) ==
    [T EXCEPT ![cur].sleep_ticks = delay,
              ![cur].state = IF delay = 0 THEN "READY" ELSE "SLEEPING"]

kernel_task_suspend(T, cur, id) ==
    IF /\ id \in ApplicationTask
       /\ \/ T[id].state = "READY"
          \/ T[id].state = "RUNNING" /\ id = cur
    THEN [T EXCEPT ![id].state = "SUSPENDED"]
    ELSE T

kernel_task_resume(T, id) ==
    IF id \in ApplicationTask /\ T[id].state = "SUSPENDED"
    THEN [T EXCEPT ![id].state = "READY"]
    ELSE T

-----------------------------------------------------------------------------
(* The table JRT_KernelInit leaves behind.                                 *)

prepare_task(i) ==
    [state |-> "READY", sleep_ticks |-> 0, priority |-> base_priority[i],
     wait_object |-> NULL, wait_kind |-> "NONE", wait_start |-> 0,
     wait_deadline |-> 0, wait_forever |-> 0, wait_result |-> 0]

prepare_timer_service_task(now) ==
    task_wait_begin(prepare_task(timer_service_task_index),
                    timer_service_wait_object, "TIMER_SERVICE",
                    now, JRT_WAIT_FOREVER)

JRT_KernelInit(now) ==
    [i \in Task |->
        IF i = 0 THEN [prepare_task(0) EXCEPT !.state = "RUNNING"]
        ELSE IF i = timer_service_task_index
             THEN prepare_timer_service_task(now)
             ELSE prepare_task(i)]

-----------------------------------------------------------------------------
(* The task part of kernel_check_invariants_locked, which the kernel runs  *)
(* at every tick and answers with a fatal halt when it fails.              *)

check_task(task) ==
    IF task.state = "BLOCKED"
    THEN task.wait_object # NULL /\ task.wait_kind # "NONE"
    ELSE /\ task.wait_object = NULL
         /\ task.wait_kind = "NONE"
         /\ task.wait_start = 0
         /\ task.wait_deadline = 0
         /\ task.wait_forever = 0

kernel_check_invariants(T) == \A i \in Task : check_task(T[i])
=============================================================================
