----------------------------- MODULE TaskProofs -----------------------------
(***************************************************************************)
(* What the functions of the task table return and preserve, and that      *)
(* every step of the kernel that the task module describes preserves       *)
(* TaskInv, for every number of tasks, every priority assignment and every *)
(* width of the tick counter.  The lemmas cover the pieces of blocking     *)
(* calls too, so that the modules of the synchronisation objects can use   *)
(* them.                                                                   *)
(***************************************************************************)
EXTENDS Task, WellFoundedInduction, TLAPS

-----------------------------------------------------------------------------
(* Minima and maxima.                                                      *)

(* A non-empty set of naturals has a least element.                        *)
LEMMA LeastNatural ==
    ASSUME NEW S, S \subseteq Nat, S # {}
    PROVE  \E x \in S : \A y \in S : x <= y
<1>1. PICK x \in S : \A y \in S : ~ (<<y, x>> \in OpToRel(<, Nat))
  BY NatLessThanWellFounded, WFMin
<1>2. ASSUME NEW y \in S
      PROVE  x <= y
  <2>1. x \in Nat /\ y \in Nat
    OBVIOUS
  <2>2. y < x => <<y, x>> \in OpToRel(<, Nat)
    BY <2>1 DEF OpToRel
  <2>3. ~ (<<y, x>> \in OpToRel(<, Nat))
    BY <1>1
  <2>4. ~ (y < x)
    BY <2>2, <2>3
  <2> QED
    BY <2>1, <2>4
<1> QED
  BY <1>2

(* A measure with values in the naturals is least somewhere.               *)
LEMMA LeastMeasure ==
    ASSUME NEW S, S # {}, NEW f, \A x \in S : f[x] \in Nat
    PROVE  \E x \in S : \A y \in S : f[x] <= f[y]
<1> DEFINE V == {f[x] : x \in S}
<1>1. V \subseteq Nat /\ V # {}
  OBVIOUS
<1>2. PICK v \in V : \A w \in V : v <= w
  BY <1>1, LeastNatural
<1>3. PICK x \in S : v = f[x]
  OBVIOUS
<1> QED
  BY <1>2, <1>3

-----------------------------------------------------------------------------
(* Loops: a recursive function on 0 .. n is an iteration of a step.        *)

(* Induction up to a bound: G holds the turns of which something is true.  *)
LEMMA UpTo ==
    ASSUME NEW n \in Nat, NEW G, 0 \in G,
           \A d \in 1 .. n : d - 1 \in G => d \in G
    PROVE  \A d \in 0 .. n : d \in G
<1> DEFINE Bad == {d \in 0 .. n : d \notin G}
<1>1. ASSUME Bad # {}
      PROVE  FALSE
  <2>1. Bad \subseteq Nat
    OBVIOUS
  <2>2. PICK d \in Bad : \A e \in Bad : d <= e
    BY <1>1, <2>1, LeastNatural
  <2>3. d \in 1 .. n /\ d - 1 \in 0 .. n /\ ~(d <= d - 1)
    BY <2>2
  <2>4. d - 1 \in G
    BY <2>2, <2>3
  <2> QED
    BY <2>2, <2>3, <2>4
<1> QED
  BY <1>1

(* f holds the values of n turns that start with s and stay in S.          *)
Iterates(f, n, S, s, step) ==
    /\ f \in [0 .. n -> S]
    /\ f[0] = s
    /\ \A d \in 1 .. n : f[d] = step[d][f[d - 1]]

(* There is such an iteration.                                             *)
LEMMA IterationExists ==
    ASSUME NEW n \in Nat, NEW S, NEW s \in S, NEW step \in [1 .. n -> [S -> S]]
    PROVE  \E f : Iterates(f, n, S, s, step)
<1> DEFINE G == {m \in 0 .. n : \E f : Iterates(f, m, S, s, step)}
<1>1. 0 \in G
  <2> DEFINE f == [d \in 0 .. 0 |-> s]
  <2>1. f \in [0 .. 0 -> S] /\ f[0] = s /\ 1 .. 0 = {} /\ 0 \in 0 .. n
    OBVIOUS
  <2> HIDE DEF f
  <2>2. Iterates(f, 0, S, s, step)
    BY <2>1 DEF Iterates
  <2> QED
    BY <2>1, <2>2
<1>2. ASSUME NEW m \in 1 .. n, m - 1 \in G
      PROVE  m \in G
  <2>0. PICK f : Iterates(f, m - 1, S, s, step)
    BY <1>2
  <2>1. /\ f \in [0 .. m - 1 -> S] /\ f[0] = s
        /\ \A d \in 1 .. m - 1 : f[d] = step[d][f[d - 1]]
    BY <2>0 DEF Iterates
  <2> DEFINE g == [d \in 0 .. m |-> IF d = m THEN step[m][f[m - 1]] ELSE f[d]]
  <2>2. m - 1 \in 0 .. m - 1 /\ m # 0 /\ m \in Nat
    OBVIOUS
  <2>3. step[m][f[m - 1]] \in S
    BY <2>1, <2>2
  <2>4. g \in [0 .. m -> S]
    <3>1. \A d \in 0 .. m : d # m => d \in 0 .. m - 1
      OBVIOUS
    <3> QED
      BY <2>1, <2>3, <3>1
  <2>5. g[0] = s
    BY <2>1, <2>2
  <2>6. ASSUME NEW d \in 1 .. m
        PROVE  g[d] = step[d][g[d - 1]]
    <3>1. d \in 0 .. m /\ d - 1 \in 0 .. m /\ d - 1 # m
      OBVIOUS
    <3>2. g[d - 1] = f[d - 1]
      BY <3>1
    <3>3. CASE d = m
      BY <3>1, <3>2, <3>3
    <3>4. CASE d # m
      <4>1. d \in 1 .. m - 1
        BY <3>4
      <4> QED
        BY <2>1, <3>1, <3>2, <3>4, <4>1
    <3> QED
      BY <3>3, <3>4
  <2> HIDE DEF g
  <2>7. Iterates(g, m, S, s, step)
    BY <2>4, <2>5, <2>6 DEF Iterates
  <2> QED
    BY <2>7
<1> HIDE DEF G
<1>3. \A d \in 0 .. n : d \in G
  BY <1>1, <1>2, UpTo
<1>4. n \in 0 .. n
  OBVIOUS
<1>5. n \in G
  BY <1>3, <1>4
<1> QED
  BY <1>5 DEF G

-----------------------------------------------------------------------------
(* The table.                                                              *)

LEMMA TaskIndices ==
    /\ Task \subseteq Nat
    /\ ApplicationTask \subseteq Task
    /\ 0 \in ApplicationTask
    /\ timer_service_task_index \in Task \ ApplicationTask
    /\ idle_index \in Task \ ApplicationTask
    /\ idle_index # timer_service_task_index
    /\ NoTask \notin Task
BY TaskTableAssumption
   DEF Task, ApplicationTask, task_count, timer_service_task_index,
       idle_index, NoTask

(* Among some tasks of a table there is one of the greatest priority.      *)
LEMMA GreatestPriority ==
    ASSUME NEW T \in [Task -> TCB], NEW S, S \subseteq Task, S # {}
    PROVE  \E i \in S : \A j \in S : T[j].priority <= T[i].priority
<1> DEFINE f == [i \in Task |-> JRT_MAX_TASK_PRIORITY - T[i].priority]
<1>1. ASSUME NEW i \in Task
      PROVE  T[i].priority \in Priority
  BY DEF TCB
<1>2. \A i \in S : f[i] \in Nat
  BY <1>1, TaskTableAssumption DEF Priority
<1> HIDE DEF f
<1>3. PICK i \in S : \A j \in S : f[i] <= f[j]
  BY <1>2, LeastMeasure
<1>4. ASSUME NEW j \in S
      PROVE  T[j].priority <= T[i].priority
  <2>1. f[i] <= f[j]
    BY <1>3
  <2>2. /\ f[i] = JRT_MAX_TASK_PRIORITY - T[i].priority
        /\ f[j] = JRT_MAX_TASK_PRIORITY - T[j].priority
    BY DEF f
  <2>3. T[i].priority \in Nat /\ T[j].priority \in Nat
    BY <1>1 DEF Priority
  <2> QED
    BY <2>1, <2>2, <2>3, TaskTableAssumption
<1> QED
  BY <1>4

-----------------------------------------------------------------------------
(* The scheduler.                                                          *)

(* If any task is READY, one of the best priority is.                      *)
LEMMA BestExists ==
    ASSUME NEW T \in [Task -> TCB], NEW r \in Task, T[r].state = "READY"
    PROVE  Best(T) # {}
<1> DEFINE S == {i \in Task : T[i].state = "READY"}
<1>1. PICK i \in S : \A j \in S : T[j].priority <= T[i].priority
  BY GreatestPriority
<1> QED
  BY <1>1 DEF Best

(* The scheduler selects a READY task that no READY task outranks, or the  *)
(* current one when none is READY.                                         *)
LEMMA NextIndex ==
    ASSUME NEW T, NEW cur \in Task
    PROVE  /\ Best(T) # {} => next_index(T, cur) \in Best(T)
           /\ Best(T) = {} => next_index(T, cur) = cur
           /\ next_index(T, cur) \in Task
<1>1. ASSUME Best(T) # {}
      PROVE  next_index(T, cur) \in Best(T)
  <2> DEFINE f == [i \in Task |-> ScanOffset(cur, i)]
  <2>1. Best(T) \subseteq Task
    BY DEF Best
  <2>2. \A i \in Task : f[i] \in Nat
    BY TaskTableAssumption DEF ScanOffset, Task, task_count
  <2> HIDE DEF f
  <2>3. PICK i \in Best(T) : \A j \in Best(T) : f[i] <= f[j]
    BY <1>1, <2>1, <2>2, LeastMeasure
  <2>4. \A j \in Best(T) : ScanOffset(cur, i) <= ScanOffset(cur, j)
    BY <2>1, <2>3 DEF f
  <2> QED
    BY <1>1, <2>4 DEF next_index
<1>2. Best(T) \subseteq Task
  BY DEF Best
<1>3. Best(T) = {} => next_index(T, cur) = cur
  BY DEF next_index
<1> QED
  BY <1>1, <1>2, <1>3

-----------------------------------------------------------------------------
(* Waking.                                                                 *)

(* The task selected for a wake-up is one of the waiters.                  *)
LEMMA SelectedIsWaiter ==
    ASSUME NEW T \in [Task -> TCB], NEW W, W \subseteq Task, W # {}
    PROVE  Selected(T, W) \in W
<1>1. PICK p \in W : \A j \in W : T[j].priority <= T[p].priority
  BY GreatestPriority
<1> DEFINE B == {i \in W : T[i].priority = T[p].priority}
<1>2. B \subseteq Nat /\ B # {}
  BY TaskIndices
<1>3. PICK i \in B : \A j \in B : i <= j
  BY <1>2, LeastNatural
<1>4. ASSUME NEW j \in W
      PROVE  \/ T[j].priority < T[i].priority
             \/ T[j].priority = T[i].priority /\ i <= j
  <2>1. T[j].priority \in Int /\ T[p].priority \in Int
    BY DEF TCB, Priority
  <2> QED
    BY <1>1, <1>3, <2>1
<1> QED
  BY <1>4 DEF Selected

(* A wake-up leaves the table alone when nobody waits, and otherwise ends  *)
(* the wait of exactly one waiter with result 1.                           *)
LEMMA TaskWake ==
    ASSUME NEW T \in [Task -> TCB], NEW object, NEW kind
    PROVE  \/ /\ Waiters(T, object, kind) = {}
              /\ task_wake(T, object, kind) = T
           \/ \E i \in Waiters(T, object, kind) :
                task_wake(T, object, kind) =
                    [T EXCEPT ![i] = task_wait_end(T[i], 1)]
<1> DEFINE W == Waiters(T, object, kind)
<1>1. W \subseteq Task
  BY DEF Waiters
<1>2. CASE W = {}
  BY <1>2 DEF task_wake, task_wake_get_id
<1>3. CASE W # {}
  <2>1. Selected(T, W) \in W
    BY <1>1, <1>3, SelectedIsWaiter
  <2>2. Selected(T, W) # NoTask
    BY <1>1, <2>1, TaskIndices
  <2> QED
    BY <1>3, <2>1, <2>2 DEF task_wake, task_wake_get_id
<1> QED
  BY <1>2, <1>3

-----------------------------------------------------------------------------
(* Types.                                                                  *)

LEMMA TickTypes ==
    ASSUME NEW a \in Int, NEW b \in Int
    PROVE  TickAdd(a, b) \in Tick /\ TickSub(a, b) \in Tick
BY TaskTableAssumption DEF TickAdd, TickSub, Tick

LEMMA TickConstants ==
    /\ 0 \in Tick /\ JRT_WAIT_FOREVER \in Tick
    /\ Tick \subseteq Nat
    /\ JRT_WAIT_FOREVER # 0
BY TaskTableAssumption DEF Tick, JRT_WAIT_FOREVER

LEMMA DeadlineType ==
    ASSUME NEW now \in Tick, NEW timeout \in Tick
    PROVE  task_wait_deadline(now, timeout) \in Deadline
<1>1. TickAdd(now, timeout) \in Tick
  BY TickTypes, TickConstants
<1> QED
  BY <1>1 DEF task_wait_deadline, Deadline

LEMMA WaitBeginType ==
    ASSUME NEW task \in TCB, NEW kind \in WaitKind,
           NEW object \in Object \cup {timer_service_wait_object},
           NEW deadline \in Deadline
    PROVE  task_wait_begin_until(task, object, kind, deadline) \in TCB
BY DEF task_wait_begin_until, TCB, Deadline, State

LEMMA WaitEndType ==
    ASSUME NEW task \in TCB, NEW result \in {0, 1}
    PROVE  task_wait_end(task, result) \in TCB
BY TickConstants DEF task_wait_end, TCB, State

LEMMA SleeperType ==
    ASSUME NEW task \in TCB, task.sleep_ticks > 0
    PROVE  tick_sleeper(task) \in TCB
<1>1. task.sleep_ticks - 1 \in Tick
  BY TaskTableAssumption DEF TCB, Tick
<1> QED
  BY <1>1 DEF tick_sleeper, TCB, State

LEMMA TickTaskType ==
    ASSUME NEW task \in TCB, NEW now
    PROVE  tick_task(task, now) \in TCB
BY SleeperType, WaitEndType DEF tick_task

-----------------------------------------------------------------------------
(* Entries of the table.                                                   *)

(* A task that executes application code or is inside a kernel call, but   *)
(* not between publishing BLOCKED and the SVC, is RUNNING.                 *)
LEMMA ThreadRuns ==
    ASSUME TaskInv, NEW t \in Task, Thread(t), pc[t] # "yield"
    PROVE  tasks[t].state = "RUNNING"
BY DEF TaskInv, ExecutingIsRunning, Thread

(* A change of one entry of the table that keeps the entry well-formed     *)
(* keeps the whole table well-formed.                                      *)
LEMMA EntryUpdate ==
    ASSUME TaskInv, NEW i \in Task, NEW entry \in TCB,
           check_task(entry), ~WaitExpired(entry, ticks),
           i = idle_index => entry.state \in {"READY", "RUNNING"},
           ticks' = ticks, tasks' = [tasks EXCEPT ![i] = entry]
    PROVE  /\ tasks' \in [Task -> TCB]
           /\ KernelInvariantsHold'
           /\ NoOverdueWaiter'
           /\ IdleRunnable'
<1> USE DEF TaskInv
<1>1. tasks' \in [Task -> TCB]
  BY DEF TaskTypeOK
<1>2. \A j \in Task : tasks'[j] = IF j = i THEN entry ELSE tasks[j]
  BY DEF TaskTypeOK
<1>3. KernelInvariantsHold'
  BY <1>2 DEF KernelInvariantsHold, kernel_check_invariants
<1>4. NoOverdueWaiter'
  BY <1>2 DEF NoOverdueWaiter
<1>5. IdleRunnable'
  BY <1>2, TaskIndices DEF IdleRunnable
<1> QED
  BY <1>1, <1>3, <1>4, <1>5

(* Moving a task that waits for nothing to another state without a wait    *)
(* keeps its entry well-formed.                                            *)
LEMMA StateChange ==
    ASSUME NEW task \in TCB, check_task(task), task.state # "BLOCKED",
           NEW state \in State \ {"BLOCKED"}
    PROVE  LET after == [task EXCEPT !.state = state]
           IN  /\ after \in TCB
               /\ check_task(after)
               /\ after.state = state
               /\ \A now : ~WaitExpired(after, now)
<1> DEFINE after == [task EXCEPT !.state = state]
<1>1. after \in TCB /\ after.state = state
  BY DEF TCB
<1>2. /\ after.wait_object = task.wait_object
      /\ after.wait_kind = task.wait_kind
      /\ after.wait_start = task.wait_start
      /\ after.wait_deadline = task.wait_deadline
      /\ after.wait_forever = task.wait_forever
  BY DEF TCB
<1> HIDE DEF after
<1>3. check_task(after)
  BY <1>1, <1>2 DEF check_task
<1>4. \A now : ~WaitExpired(after, now)
  BY <1>1 DEF WaitExpired
<1> QED
  BY <1>1, <1>3, <1>4 DEF after

-----------------------------------------------------------------------------
(* Exceptions.                                                             *)

LEMMA InitInv == TaskInit => TaskInv
<1> SUFFICES ASSUME TaskInit
             PROVE  TaskInv
  OBVIOUS
<1> DEFINE T == JRT_KernelInit(ticks)
<1>1. ticks \in Tick /\ tasks = T /\ current = 0 /\ pendsv = 0
  BY TickConstants DEF TaskInit
<1>2. \A i \in Task : base_priority[i] \in Priority
  BY TaskTableAssumption
<1>3. \A i \in Task : prepare_task(i) \in TCB
  BY <1>2, TickConstants DEF prepare_task, TCB, State
<1>4. prepare_timer_service_task(ticks) \in TCB
  <2>1. task_wait_deadline(ticks, JRT_WAIT_FOREVER) \in Deadline
    BY <1>1, DeadlineType, TickConstants
  <2> QED
    BY <1>3, <2>1, TaskIndices
       DEF prepare_timer_service_task, task_wait_begin,
           task_wait_begin_until, TCB, Deadline, State, WaitKind
<1>5. \A i \in Task : T[i] \in TCB
  BY <1>3, <1>4, TaskIndices DEF JRT_KernelInit, TCB, State
<1>6. TaskTypeOK
  <2>1. tasks \in [Task -> TCB]
    BY <1>1, <1>5 DEF JRT_KernelInit
  <2>2. NoCall \in Call
    BY TickConstants DEF NoCall, Call, Deadline
  <2> QED
    BY <1>1, <2>1, <2>2, TaskIndices DEF TaskInit, TaskTypeOK
<1>7. /\ tasks[0].state = "RUNNING"
      /\ \A i \in Task \ {0} : tasks[i].state \in {"READY", "BLOCKED"}
      /\ tasks[idle_index].state = "READY"
  BY <1>1, TaskIndices
     DEF JRT_KernelInit, prepare_task, prepare_timer_service_task,
         task_wait_begin, task_wait_begin_until
<1>8. ExecutingIsRunning
  BY <1>1, <1>7 DEF ExecutingIsRunning
<1>9. KernelInvariantsHold
  <2> SUFFICES ASSUME NEW i \in Task
               PROVE  check_task(T[i])
    BY <1>1 DEF KernelInvariantsHold, kernel_check_invariants
  <2>1. timer_service_wait_object # NULL
    BY TaskTableAssumption
  <2> QED
    BY <2>1, TaskIndices
       DEF JRT_KernelInit, prepare_task, prepare_timer_service_task,
           task_wait_begin, task_wait_begin_until, check_task
<1>10. NoOverdueWaiter
  <2> SUFFICES ASSUME NEW i \in Task, tasks[i].state = "BLOCKED"
               PROVE  tasks[i].wait_forever = 1
    BY DEF NoOverdueWaiter, WaitExpired
  <2> QED
    BY <1>1
       DEF JRT_KernelInit, prepare_task, prepare_timer_service_task,
           task_wait_begin, task_wait_begin_until, task_wait_deadline
<1> QED
  BY <1>6, <1>7, <1>8, <1>9, <1>10 DEF TaskInv, IdleRunnable

LEMMA PendSVInv == TaskInv /\ PendSV => TaskInv'
<1> SUFFICES ASSUME TaskInv, PendSV
             PROVE  TaskInv'
  OBVIOUS
<1> DEFINE T == Preempted(tasks, current)
           next == next_index(T, current)
<1>1. current \in Task /\ tasks \in [Task -> TCB]
  BY DEF TaskInv, TaskTypeOK
<1>2. T \in [Task -> TCB]
  BY <1>1 DEF Preempted, TCB, State
<1>3. \A i \in Task :
         T[i] = IF i = current /\ tasks[i].state = "RUNNING"
                THEN [tasks[i] EXCEPT !.state = "READY"] ELSE tasks[i]
  BY <1>1 DEF Preempted, TCB
<1>4. T[idle_index].state = "READY"
  BY <1>1, <1>3, TaskIndices
     DEF TaskInv, IdleRunnable, ExecutingIsRunning, TCB
<1>5. next \in Best(T)
  BY <1>1, <1>2, <1>4, BestExists, NextIndex, TaskIndices
<1>6. next \in Task /\ T[next].state = "READY"
  BY <1>5 DEF Best
<1>7. \A i \in Task : T[i].state # "RUNNING"
  BY <1>1, <1>3 DEF TaskInv, ExecutingIsRunning, TCB
<1>8. current' = next /\ tasks' = [T EXCEPT ![next].state = "RUNNING"]
  BY DEF PendSV
<1> HIDE DEF T, next
<1>9. \A i \in Task :
         tasks'[i] = IF i = next THEN [T[i] EXCEPT !.state = "RUNNING"]
                     ELSE T[i]
  BY <1>2, <1>8
<1>10. TaskTypeOK'
  <2>1. [T[next] EXCEPT !.state = "RUNNING"] \in TCB
    BY <1>2, <1>6 DEF TCB, State
  <2>2. tasks' \in [Task -> TCB]
    BY <1>2, <1>6, <1>8, <2>1
  <2>3. pendsv' = 0 /\ UNCHANGED <<ticks, pc, call>>
    BY DEF PendSV
  <2> QED
    BY <1>6, <1>8, <2>2, <2>3 DEF TaskInv, TaskTypeOK
<1>11. ExecutingIsRunning'
  BY <1>2, <1>6, <1>7, <1>8, <1>9 DEF ExecutingIsRunning, TCB
<1>12. KernelInvariantsHold'
  <2>1. \A i \in Task : check_task(tasks[i])
    BY DEF TaskInv, KernelInvariantsHold, kernel_check_invariants
  <2>2. ASSUME NEW i \in Task
        PROVE  check_task(T[i])
    <3>1. CASE i = current /\ tasks[i].state = "RUNNING"
      <4>1. check_task([tasks[i] EXCEPT !.state = "READY"])
        BY <1>1, <2>1, <3>1, StateChange DEF State
      <4> QED
        BY <1>3, <3>1, <4>1
    <3>2. CASE ~(i = current /\ tasks[i].state = "RUNNING")
      BY <1>3, <2>1, <3>2
    <3> QED
      BY <3>1, <3>2
  <2>3. ASSUME NEW i \in Task
        PROVE  check_task(tasks'[i])
    <3>1. CASE i = next
      <4>1. check_task([T[i] EXCEPT !.state = "RUNNING"])
        BY <1>2, <1>6, <2>2, <3>1, StateChange DEF State
      <4> QED
        BY <1>9, <3>1, <4>1
    <3>2. CASE i # next
      BY <1>9, <2>2, <3>2
    <3> QED
      BY <3>1, <3>2
  <2> QED
    BY <2>3 DEF KernelInvariantsHold, kernel_check_invariants
<1>13. NoOverdueWaiter'
  <2>1. \A i \in Task : ~WaitExpired(T[i], ticks)
    BY <1>1, <1>3 DEF TaskInv, NoOverdueWaiter, WaitExpired, TCB
  <2>2. \A i \in Task : ~WaitExpired(tasks'[i], ticks)
    BY <1>2, <1>9, <2>1 DEF WaitExpired, TCB
  <2> QED
    BY <2>2 DEF NoOverdueWaiter, PendSV
<1>14. IdleRunnable'
  BY <1>2, <1>4, <1>9, TaskIndices DEF IdleRunnable, TCB
<1> QED
  BY <1>10, <1>11, <1>12, <1>13, <1>14 DEF TaskInv

(* What a tick does to one entry: nothing, a count down, or the end of a   *)
(* wait; afterwards the entry has no overdue wait.                         *)
LEMMA TickTask ==
    ASSUME NEW task \in TCB, NEW now, check_task(task)
    PROVE  LET after == tick_task(task, now)
           IN  /\ check_task(after)
               /\ ~WaitExpired(after, now)
               /\ after.state = "RUNNING" <=> task.state = "RUNNING"
               /\ task.state \in {"READY", "RUNNING"} => after = task
<1>1. CASE task.state = "SLEEPING" /\ task.sleep_ticks > 0
  BY <1>1 DEF tick_task, tick_sleeper, check_task, WaitExpired, TCB
<1>2. CASE WaitExpired(task, now)
  BY <1>2 DEF tick_task, task_wait_end, check_task, WaitExpired, TCB
<1>3. CASE /\ ~(task.state = "SLEEPING" /\ task.sleep_ticks > 0)
           /\ ~WaitExpired(task, now)
  BY <1>3 DEF tick_task
<1> QED
  BY <1>1, <1>2, <1>3

(* A tick does not block a task.                                           *)
LEMMA TickBlocksNone ==
    ASSUME NEW task \in TCB, NEW now, tick_task(task, now).state = "BLOCKED"
    PROVE  tick_task(task, now) = task
<1>1. CASE task.state = "SLEEPING" /\ task.sleep_ticks > 0
  <2>1. tick_task(task, now) = tick_sleeper(task)
    BY <1>1 DEF tick_task, WaitExpired
  <2> QED
    BY <1>1, <2>1 DEF tick_sleeper, TCB
<1>2. CASE WaitExpired(task, now)
  BY <1>2 DEF tick_task, task_wait_end, WaitExpired, TCB
<1>3. CASE /\ ~(task.state = "SLEEPING" /\ task.sleep_ticks > 0)
           /\ ~WaitExpired(task, now)
  BY <1>3 DEF tick_task
<1> QED
  BY <1>1, <1>2, <1>3

(* The tick, on a table T in which some BLOCKED tasks of the table were    *)
(* made READY before.                                                      *)
LEMMA TickInv ==
    ASSUME TaskInv, SysTickClock, NEW T \in [Task -> TCB],
           \A i \in Task : /\ check_task(T[i])
                           /\ T[i].state = "RUNNING" => tasks[i].state = "RUNNING"
                           /\ tasks[i].state \in {"READY", "RUNNING"} =>
                                  T[i] = tasks[i],
           tasks' = tick_tasks(T, ticks')
    PROVE  TaskInv'
<1>1. tasks \in [Task -> TCB] /\ ticks \in Tick
  BY DEF TaskInv, TaskTypeOK
<1>2. ticks' \in Tick
  BY <1>1, TickTypes, TickConstants DEF SysTickClock
<1>3. tasks' = [i \in Task |-> tick_task(T[i], ticks')]
  BY DEF tick_tasks
<1>4. ASSUME NEW i \in Task
      PROVE  /\ tasks'[i] \in TCB
             /\ check_task(tasks'[i])
             /\ ~WaitExpired(tasks'[i], ticks')
             /\ tasks'[i].state = "RUNNING" => tasks[i].state = "RUNNING"
             /\ tasks[i].state \in {"READY", "RUNNING"} =>
                    tasks'[i] = tasks[i]
  BY <1>1, <1>3, TickTask, TickTaskType
<1>5. TaskTypeOK'
  <2>1. tasks' \in [Task -> TCB]
    BY <1>3, <1>4
  <2> QED
    BY <1>2, <2>1 DEF TaskInv, TaskTypeOK, SysTickClock
<1>6. ExecutingIsRunning'
  BY <1>4 DEF TaskInv, ExecutingIsRunning, SysTickClock
<1>7. KernelInvariantsHold' /\ NoOverdueWaiter'
  BY <1>4
     DEF KernelInvariantsHold, kernel_check_invariants, NoOverdueWaiter
<1>8. IdleRunnable'
  BY <1>4, TaskIndices DEF TaskInv, IdleRunnable
<1> QED
  BY <1>5, <1>6, <1>7, <1>8 DEF TaskInv

LEMMA SysTickInv == TaskInv /\ SysTick => TaskInv'
<1>1. TaskInv => /\ tasks \in [Task -> TCB]
                 /\ \A i \in Task : check_task(tasks[i])
  BY DEF TaskInv, TaskTypeOK, KernelInvariantsHold, kernel_check_invariants
<1> QED
  BY <1>1, TickInv DEF SysTick

-----------------------------------------------------------------------------
(* Supervisor calls.                                                       *)

(* A service that replaces one entry by one that does not run.             *)
LEMMA SvcEntry ==
    ASSUME TaskInv, NEW i \in Task \ {idle_index}, NEW entry \in TCB,
           check_task(entry), entry.state \notin {"RUNNING", "BLOCKED"},
           Svc([tasks EXCEPT ![i] = entry])
    PROVE  TaskInv'
<1>1. /\ tasks' = [tasks EXCEPT ![i] = entry]
      /\ pendsv' = 1
      /\ UNCHANGED <<current, ticks, pc, call>>
  BY DEF Svc
<1>2. ~WaitExpired(entry, ticks)
  BY DEF WaitExpired
<1>3. /\ tasks' \in [Task -> TCB]
      /\ KernelInvariantsHold'
      /\ NoOverdueWaiter'
      /\ IdleRunnable'
  BY <1>1, <1>2, EntryUpdate
<1>4. TaskTypeOK'
  BY <1>1, <1>3 DEF TaskInv, TaskTypeOK
<1>5. ExecutingIsRunning'
  BY <1>1 DEF TaskInv, TaskTypeOK, ExecutingIsRunning
<1> QED
  BY <1>3, <1>4, <1>5 DEF TaskInv

(* A step that moves one task in its call and leaves the table alone.      *)
LEMMA CallStep ==
    ASSUME TaskInv, NEW t \in Task,
           UNCHANGED <<tasks, current, ticks>>,
           NEW where \in {"app", "attempt", "yield", "woken", "callback"},
           pc' = [pc EXCEPT ![t] = where],
           NEW c \in Call, call' = [call EXCEPT ![t] = c],
           \/ pendsv' = 1
           \/ pendsv' = pendsv /\ (where = "yield" \/ pc[t] # "yield")
    PROVE  TaskInv'
<1>1. TaskTypeOK'
  BY DEF TaskInv, TaskTypeOK
<1>2. ExecutingIsRunning'
  BY DEF TaskInv, TaskTypeOK, ExecutingIsRunning
<1>3. KernelInvariantsHold' /\ NoOverdueWaiter' /\ IdleRunnable'
  BY DEF TaskInv, KernelInvariantsHold, NoOverdueWaiter, IdleRunnable
<1> QED
  BY <1>1, <1>2, <1>3 DEF TaskInv

LEMMA ServicesInv == TaskInv /\ Services => TaskInv'
<1> SUFFICES ASSUME TaskInv, NEW t \in ApplicationTask,
                    \/ TaskYield(t)
                    \/ \E d \in Delay : TaskDelay(t, d)
                    \/ \E id \in SuspendTarget :
                          TaskSuspend(t, id) \/ TaskResume(t, id)
             PROVE  TaskInv'
  BY DEF Services
<1>1. t \in Task \ {idle_index} /\ tasks \in [Task -> TCB]
  BY TaskIndices DEF TaskInv, TaskTypeOK
<1>2. \A i \in Task : check_task(tasks[i])
  BY DEF TaskInv, KernelInvariantsHold, kernel_check_invariants
<1>3. InApp(t) => tasks[t].state = "RUNNING"
  BY <1>1, ThreadRuns DEF InApp
<1>4. ASSUME NEW i \in ApplicationTask, tasks[i].state # "BLOCKED",
             NEW s \in {"READY", "SUSPENDED"},
             Svc([tasks EXCEPT ![i].state = s])
      PROVE  TaskInv'
  <2> DEFINE entry == [tasks[i] EXCEPT !.state = s]
  <2>1. i \in Task \ {idle_index}
    BY TaskIndices
  <2>2. entry \in TCB /\ check_task(entry) /\ entry.state = s
    BY <1>1, <1>2, <1>4, <2>1, StateChange DEF State
  <2>3. [tasks EXCEPT ![i].state = s] = [tasks EXCEPT ![i] = entry]
    BY <1>1, <2>1
  <2> HIDE DEF entry
  <2> QED
    BY <1>4, <2>1, <2>2, <2>3, SvcEntry
<1>5. ASSUME Svc(tasks)
      PROVE  TaskInv'
  BY <1>5
     DEF Svc, TaskInv, TaskTypeOK, ExecutingIsRunning, KernelInvariantsHold,
         NoOverdueWaiter, IdleRunnable
<1>6. CASE TaskYield(t)
  BY <1>5, <1>6 DEF TaskYield
<1>7. ASSUME NEW d \in Delay, TaskDelay(t, d)
      PROVE  TaskInv'
  <2> DEFINE s == IF d = 0 THEN "READY" ELSE "SLEEPING"
             awake == [tasks[t] EXCEPT !.state = s]
             entry == [tasks[t] EXCEPT !.sleep_ticks = d, !.state = s]
  <2>1. d \in Tick
    BY TaskAssumption
  <2>2. tasks[t].state = "RUNNING"
    BY <1>3, <1>7 DEF TaskDelay
  <2>3. awake \in TCB /\ check_task(awake) /\ awake.state = s
    BY <1>1, <1>2, <2>2, StateChange DEF State
  <2>4. entry \in TCB /\ entry.state = s
    BY <1>1, <2>1 DEF TCB, State
  <2>5. check_task(entry)
    BY <1>1, <2>3, <2>4 DEF check_task, TCB
  <2>6. sleep_current(tasks, t, d) = [tasks EXCEPT ![t] = entry]
    BY <1>1 DEF sleep_current
  <2>7. Svc([tasks EXCEPT ![t] = entry])
    BY <1>7, <2>6 DEF TaskDelay
  <2>8. entry.state \notin {"RUNNING", "BLOCKED"}
    BY <2>4
  <2> HIDE DEF entry
  <2> QED
    BY <1>1, <2>4, <2>5, <2>7, <2>8, SvcEntry
<1>8. ASSUME NEW id \in SuspendTarget, TaskSuspend(t, id)
      PROVE  TaskInv'
  <2> DEFINE i == resolve(id, t)
  <2>1. Svc(kernel_task_suspend(tasks, t, i))
    BY <1>8 DEF TaskSuspend
  <2> HIDE DEF i
  <2>2. CASE /\ i \in ApplicationTask
             /\ \/ tasks[i].state = "READY"
                \/ tasks[i].state = "RUNNING" /\ i = t
    BY <1>4, <2>1, <2>2 DEF kernel_task_suspend
  <2>3. CASE ~(/\ i \in ApplicationTask
               /\ \/ tasks[i].state = "READY"
                  \/ tasks[i].state = "RUNNING" /\ i = t)
    BY <1>5, <2>1, <2>3 DEF kernel_task_suspend
  <2> QED
    BY <2>2, <2>3
<1>9. ASSUME NEW id \in SuspendTarget, TaskResume(t, id)
      PROVE  TaskInv'
  <2>1. Svc(kernel_task_resume(tasks, id))
    BY <1>9 DEF TaskResume
  <2>2. CASE id \in ApplicationTask /\ tasks[id].state = "SUSPENDED"
    BY <1>4, <2>1, <2>2 DEF kernel_task_resume
  <2>3. CASE ~(id \in ApplicationTask /\ tasks[id].state = "SUSPENDED")
    BY <1>5, <2>1, <2>3 DEF kernel_task_resume
  <2> QED
    BY <2>2, <2>3
<1> QED
  BY <1>6, <1>7, <1>8, <1>9

-----------------------------------------------------------------------------
(* Distances between ticks.                                                *)

LEMMA DistanceType ==
    ASSUME NEW a \in Tick, NEW b \in Tick
    PROVE  TickSub(a, b) \in Nat /\ TickSub(a, b) < TICK_MOD
<1>1. a \in Int /\ b \in Int /\ TICK_MOD \in Nat /\ TICK_MOD > 0
  BY TaskTableAssumption DEF Tick
<1> QED
  BY <1>1 DEF TickSub

LEMMA TickDistance ==
    ASSUME NEW now \in Tick, NEW start \in Tick
    PROVE  /\ TickSub(TickAdd(now, 1), start) <= TickSub(now, start) + 1
           /\ TickSub(start, start) = 0
<1>1. /\ TICK_MOD \in Nat /\ TICK_MOD > 2
      /\ now \in Nat /\ now < TICK_MOD /\ start \in Nat /\ start < TICK_MOD
  BY TaskTableAssumption DEF Tick
<1>2. \A x \in Int : 0 <= x /\ x < TICK_MOD => x % TICK_MOD = x
  BY <1>1
<1>3. \A x \in Int : -TICK_MOD <= x /\ x < 0 => x % TICK_MOD = x + TICK_MOD
  BY <1>1
<1>4. TICK_MOD % TICK_MOD = 0
  BY <1>1
<1> QED
  BY <1>1, <1>2, <1>3, <1>4 DEF TickAdd, TickSub

LEMMA TimeoutDistance ==
    ASSUME NEW start \in Tick, NEW timeout \in Tick
    PROVE  TickSub(TickAdd(start, timeout), start) = timeout
<1>1. /\ TICK_MOD \in Nat /\ TICK_MOD > 2
      /\ start \in Nat /\ start < TICK_MOD
      /\ timeout \in Nat /\ timeout < TICK_MOD
  BY TaskTableAssumption DEF Tick
<1>2. \A x \in Int : 0 <= x /\ x < TICK_MOD => x % TICK_MOD = x
  BY <1>1
<1>3. \A x \in Int : -TICK_MOD <= x /\ x < 0 => x % TICK_MOD = x + TICK_MOD
  BY <1>1
<1>4. \A x \in Int : TICK_MOD <= x /\ x < 2 * TICK_MOD =>
                        x % TICK_MOD = x - TICK_MOD
  BY <1>1
<1> QED
  BY <1>1, <1>2, <1>3, <1>4 DEF TickAdd, TickSub

(* An elapsed finite deadline means that the timeout has gone by.          *)
LEMMA ElapsedMeansWaited ==
    ASSUME NEW deadline \in Deadline, NEW timeout \in Tick, NEW now \in Tick,
           NEW w \in Nat,
           deadline = task_wait_deadline(deadline.start, timeout),
           w >= TickSub(now, deadline.start),
           deadline.forever = 0,
           Elapsed(now, deadline.start, deadline.tick)
    PROVE  timeout # JRT_WAIT_FOREVER /\ w >= timeout
<1>1. deadline.start \in Tick
  BY DEF Deadline
<1>2. /\ deadline.tick = TickAdd(deadline.start, timeout)
      /\ deadline.forever = IF timeout = JRT_WAIT_FOREVER THEN 1 ELSE 0
  BY DEF task_wait_deadline
<1>3. TickSub(deadline.tick, deadline.start) = timeout
  BY <1>1, <1>2, TimeoutDistance
<1>4. TickSub(now, deadline.start) \in Nat /\ timeout \in Nat
  BY <1>1, DistanceType, TickConstants
<1> QED
  BY <1>2, <1>3, <1>4 DEF Elapsed

-----------------------------------------------------------------------------
(* The pieces of a blocking call.                                          *)

LEMMA EnterInv ==
    ASSUME TaskInv, NEW t \in Task, NEW op \in Operation,
           NEW object \in Object, NEW timeout \in Timeout,
           Enter(t, op, object, timeout)
    PROVE  TaskInv'
<1> DEFINE c == [op |-> op, object |-> object, timeout |-> timeout,
                 reserved |-> 0,
                 deadline |-> task_wait_deadline(ticks, timeout)]
<1>1. timeout \in Tick /\ ticks \in Tick
  BY TaskAssumption DEF TaskInv, TaskTypeOK
<1>2. c \in Call
  BY <1>1, DeadlineType DEF Call
<1>3. /\ pc[t] = "app"
      /\ pc' = [pc EXCEPT ![t] = "attempt"]
      /\ call' = [call EXCEPT ![t] = c]
      /\ UNCHANGED <<tasks, current, ticks, pendsv>>
  BY DEF Enter, InApp
<1> HIDE DEF c
<1> QED
  BY <1>2, <1>3, CallStep

LEMMA ReturnInv ==
    ASSUME TaskInv, NEW t \in Task, pc[t] # "yield", Return(t),
           UNCHANGED tasks
    PROVE  TaskInv'
<1>1. NoCall \in Call
  BY TickConstants DEF NoCall, Call, Deadline
<1> QED
  BY <1>1, CallStep DEF Return

LEMMA ArchYieldInv ==
    ASSUME TaskInv, NEW t \in Task, ArchYield(t)
    PROVE  TaskInv'
<1>1. call[t] \in Call /\ call' = [call EXCEPT ![t] = call[t]]
  BY DEF TaskInv, TaskTypeOK, ArchYield
<1> QED
  BY <1>1, CallStep DEF ArchYield

(* A task publishes BLOCKED for a wait whose deadline is still to come.     *)
LEMMA BlockEntryInv ==
    ASSUME TaskInv, NEW t \in Task \ {idle_index}, Thread(t),
           NEW object \in Object \cup {timer_service_wait_object},
           NEW kind \in WaitKind, NEW deadline \in Deadline,
           ~(deadline.forever = 0
               /\ Elapsed(ticks, deadline.start, deadline.tick)),
           tasks' = [tasks EXCEPT ![t] =
               task_wait_begin_until(tasks[t], object, kind, deadline)],
           pc' = [pc EXCEPT ![t] = "yield"],
           call' \in [Task -> Call],
           UNCHANGED <<current, ticks, pendsv>>
    PROVE  TaskInv'
<1> DEFINE entry == task_wait_begin_until(tasks[t], object, kind, deadline)
<1>1. tasks \in [Task -> TCB] /\ tasks[t] \in TCB
  BY DEF TaskInv, TaskTypeOK
<1>2. entry \in TCB
  BY <1>1, WaitBeginType
<1>3. /\ entry.state = "BLOCKED"
      /\ entry.wait_object = object
      /\ entry.wait_kind = kind
      /\ entry.wait_start = deadline.start
      /\ entry.wait_deadline = deadline.tick
      /\ entry.wait_forever = deadline.forever
  BY <1>1 DEF task_wait_begin_until, TCB
<1>4. tasks' = [tasks EXCEPT ![t] = entry]
  OBVIOUS
<1> HIDE DEF entry
<1>5. check_task(entry)
  <2>1. object # NULL /\ kind # "NONE"
    BY TaskTableAssumption DEF WaitKind
  <2> QED
    BY <1>3, <2>1 DEF check_task
<1>6. ~WaitExpired(entry, ticks)
  BY <1>3 DEF WaitExpired
<1>7. /\ tasks' \in [Task -> TCB]
      /\ KernelInvariantsHold'
      /\ NoOverdueWaiter'
      /\ IdleRunnable'
  BY <1>2, <1>4, <1>5, <1>6, EntryUpdate
<1>8. TaskTypeOK'
  BY <1>7 DEF TaskInv, TaskTypeOK
<1>9. ExecutingIsRunning'
  BY <1>1, <1>3, <1>4 DEF TaskInv, TaskTypeOK, ExecutingIsRunning, Thread
<1> QED
  BY <1>7, <1>8, <1>9 DEF TaskInv

LEMMA BlockInv ==
    ASSUME TaskInv, NEW t \in ApplicationTask, NEW kind \in WaitKind,
           Thread(t), pc[t] # "yield", call[t].object \in Object,
           Block(t, kind, tasks)
    PROVE  TaskInv'
<1>1. t \in Task \ {idle_index} /\ call \in [Task -> Call]
  BY TaskIndices DEF TaskInv, TaskTypeOK
<1>2. call[t].deadline \in Deadline
  BY <1>1 DEF Call
<1> QED
  BY <1>1, <1>2, BlockEntryInv DEF Block, DeadlineElapsed

(* The same for a call that tests and blocks in one critical section.      *)
LEMMA BlockNowInv ==
    ASSUME TaskInv, NEW t \in ApplicationTask, Thread(t),
           NEW op \in Operation, NEW object \in Object,
           NEW kind \in WaitKind, NEW timeout \in Tick \ {0},
           BlockNow(t, op, object, kind, timeout)
    PROVE  TaskInv'
<1> DEFINE deadline == task_wait_deadline(ticks, timeout)
           c == [NoCall EXCEPT !.op = op, !.object = object,
                               !.timeout = timeout]
<1>1. /\ t \in Task \ {idle_index} /\ call \in [Task -> Call]
      /\ ticks \in Tick
  BY TaskIndices DEF TaskInv, TaskTypeOK
<1>2. deadline \in Deadline
  BY <1>1, DeadlineType
<1>3. ~Elapsed(ticks, deadline.start, deadline.tick)
  <2>1. deadline.start = ticks /\ deadline.tick = TickAdd(ticks, timeout)
    BY DEF task_wait_deadline
  <2>2. TickSub(ticks, ticks) = 0
    BY <1>1, TickDistance
  <2>3. TickSub(TickAdd(ticks, timeout), ticks) = timeout
    BY <1>1, TimeoutDistance
  <2>4. timeout \in Nat /\ timeout # 0
    BY TickConstants
  <2> QED
    BY <2>1, <2>2, <2>3, <2>4 DEF Elapsed
<1>4. c \in Call
  BY TickConstants DEF NoCall, Call, Deadline
<1>5. /\ tasks' = [tasks EXCEPT ![t] =
              task_wait_begin_until(tasks[t], object, kind, deadline)]
      /\ pc' = [pc EXCEPT ![t] = "yield"]
      /\ call' = [call EXCEPT ![t] = c]
      /\ UNCHANGED <<current, ticks, pendsv>>
  BY DEF BlockNow, task_wait_begin
<1> HIDE DEF deadline, c
<1>6. call' \in [Task -> Call]
  BY <1>1, <1>4, <1>5
<1> QED
  BY <1>1, <1>2, <1>3, <1>5, <1>6, BlockEntryInv

(* Ending the waits of some BLOCKED tasks with result 1, in a step that    *)
(* may also move tasks in their calls.                                     *)
LEMMA WakeCallInv ==
    ASSUME TaskInv, NEW W \in SUBSET Task,
           \A i \in W : tasks[i].state = "BLOCKED",
           tasks' = [i \in Task |-> IF i \in W THEN task_wait_end(tasks[i], 1)
                                   ELSE tasks[i]],
           UNCHANGED <<current, ticks>>,
           pc' \in [Task -> {"app", "attempt", "yield", "woken", "callback"}],
           call' \in [Task -> Call],
           pc[current] = "yield" => pc'[current] = "yield",
           pendsv' \in {pendsv, 1}
    PROVE  TaskInv'
<1>1. tasks \in [Task -> TCB]
  BY DEF TaskInv, TaskTypeOK
<1>2. \A i \in Task : check_task(tasks[i]) /\ ~WaitExpired(tasks[i], ticks)
  BY DEF TaskInv, KernelInvariantsHold, kernel_check_invariants,
         NoOverdueWaiter, WaitExpired
<1>3. ASSUME NEW i \in Task
      PROVE  /\ tasks'[i] \in TCB
             /\ check_task(tasks'[i])
             /\ ~WaitExpired(tasks'[i], ticks)
             /\ tasks[i].state # "BLOCKED" => tasks'[i] = tasks[i]
             /\ tasks[i].state = "BLOCKED" => tasks'[i].state # "RUNNING"
  <2>1. CASE i \notin W
    BY <1>1, <1>2, <2>1
  <2>2. CASE i \in W
    <3>1. tasks[i] \in TCB /\ tasks'[i] = task_wait_end(tasks[i], 1)
      BY <1>1, <2>2
    <3>2. tasks'[i] \in TCB
      BY <3>1, WaitEndType
    <3>3. tasks'[i].state = "READY" /\ check_task(tasks'[i])
      BY <3>1 DEF task_wait_end, check_task, TCB
    <3> QED
      BY <2>2, <3>2, <3>3 DEF WaitExpired
  <2> QED
    BY <2>1, <2>2
<1>4. TaskTypeOK'
  <2>1. tasks' \in [Task -> TCB]
    BY <1>3
  <2> QED
    BY <2>1 DEF TaskInv, TaskTypeOK
<1>5. ExecutingIsRunning'
  BY <1>3 DEF TaskInv, TaskTypeOK, ExecutingIsRunning
<1>6. KernelInvariantsHold' /\ NoOverdueWaiter'
  BY <1>3 DEF KernelInvariantsHold, kernel_check_invariants, NoOverdueWaiter
<1>7. IdleRunnable'
  BY <1>3, TaskIndices DEF TaskInv, IdleRunnable
<1> QED
  BY <1>4, <1>5, <1>6, <1>7 DEF TaskInv

(* The same from an interrupt handler or from the application's code.      *)
LEMMA WakeSetInv ==
    ASSUME TaskInv, NEW W \in SUBSET Task,
           \A i \in W : tasks[i].state = "BLOCKED",
           tasks' = [i \in Task |-> IF i \in W THEN task_wait_end(tasks[i], 1)
                                   ELSE tasks[i]],
           UNCHANGED <<current, ticks, pc, call>>,
           pendsv' \in {pendsv, 1}
    PROVE  TaskInv'
<1>1. /\ pc' \in [Task -> {"app", "attempt", "yield", "woken", "callback"}]
      /\ call' \in [Task -> Call]
  BY DEF TaskInv, TaskTypeOK
<1> QED
  BY <1>1, WakeCallInv

(* Ending the wait of one BLOCKED task.                                    *)
LEMMA EndWaitInv ==
    ASSUME TaskInv, NEW i \in Task, tasks[i].state = "BLOCKED",
           tasks' = [tasks EXCEPT ![i] = task_wait_end(tasks[i], 1)],
           UNCHANGED <<current, ticks, pc, call>>,
           pendsv' \in {pendsv, 1}
    PROVE  TaskInv'
<1>1. tasks \in [Task -> TCB]
  BY DEF TaskInv, TaskTypeOK
<1>2. tasks' = [j \in Task |-> IF j \in {i} THEN task_wait_end(tasks[j], 1)
                               ELSE tasks[j]]
  BY <1>1
<1> QED
  BY <1>2, WakeSetInv

(* A step that leaves the table alone and at most requests a switch.       *)
LEMMA SameTableInv ==
    ASSUME TaskInv, UNCHANGED <<tasks, current, ticks, pc, call>>,
           pendsv' \in {pendsv, 1}
    PROVE  TaskInv'
BY DEF TaskInv, TaskTypeOK, ExecutingIsRunning, KernelInvariantsHold,
       NoOverdueWaiter, IdleRunnable

(* Waking a waiter, from a task or from an interrupt handler.              *)
LEMMA WakeInv ==
    ASSUME TaskInv, NEW object, NEW kind,
           tasks' = task_wake(tasks, object, kind),
           UNCHANGED <<current, ticks, pc, call>>,
           pendsv' \in {pendsv, 1}
    PROVE  TaskInv'
<1>1. tasks \in [Task -> TCB]
  BY DEF TaskInv, TaskTypeOK
<1>2. CASE tasks' = tasks
  BY <1>2, SameTableInv
<1>3. ASSUME NEW i \in Waiters(tasks, object, kind),
             tasks' = [tasks EXCEPT ![i] = task_wait_end(tasks[i], 1)]
      PROVE  TaskInv'
  <2>1. i \in Task /\ tasks[i].state = "BLOCKED"
    BY <1>3 DEF Waiters
  <2> QED
    BY <1>3, <2>1, EndWaitInv
<1> QED
  BY <1>1, <1>2, <1>3, TaskWake

(* Waking a waiter in the critical section in which a call returns.        *)
LEMMA WakeReturnInv ==
    ASSUME TaskInv, NEW t \in Task, pc[t] # "yield", NEW object, NEW kind,
           tasks' = task_wake(tasks, object, kind), Return(t)
    PROVE  TaskInv'
<1>1. /\ tasks \in [Task -> TCB] /\ call \in [Task -> Call]
      /\ pc \in [Task -> {"app", "attempt", "yield", "woken", "callback"}]
  BY DEF TaskInv, TaskTypeOK
<1>2. /\ pc' = [pc EXCEPT ![t] = "app"] /\ call' = [call EXCEPT ![t] = NoCall]
      /\ UNCHANGED <<current, ticks, pendsv>>
  BY DEF Return
<1>3. NoCall \in Call
  BY TickConstants DEF NoCall, Call, Deadline
<1>4. /\ pc' \in [Task -> {"app", "attempt", "yield", "woken", "callback"}]
      /\ call' \in [Task -> Call]
      /\ pc[current] = "yield" => pc'[current] = "yield"
  BY <1>1, <1>2, <1>3
<1>5. CASE tasks' = tasks
  <2> DEFINE W == {}
  <2>1. /\ W \in SUBSET Task /\ \A i \in W : tasks[i].state = "BLOCKED"
        /\ tasks' = [j \in Task |-> IF j \in W THEN task_wait_end(tasks[j], 1)
                                    ELSE tasks[j]]
    BY <1>1, <1>5
  <2> HIDE DEF W
  <2> QED
    BY <1>2, <1>4, <2>1, WakeCallInv
<1>6. ASSUME NEW i \in Waiters(tasks, object, kind),
             tasks' = [tasks EXCEPT ![i] = task_wait_end(tasks[i], 1)]
      PROVE  TaskInv'
  <2>1. i \in Task /\ tasks[i].state = "BLOCKED"
    BY <1>6 DEF Waiters
  <2>2. tasks' = [j \in Task |-> IF j \in {i} THEN task_wait_end(tasks[j], 1)
                                 ELSE tasks[j]]
    BY <1>1, <1>6
  <2> QED
    BY <1>2, <1>4, <2>1, <2>2, WakeCallInv
<1> QED
  BY <1>1, <1>5, <1>6, TaskWake

-----------------------------------------------------------------------------
(* What scheduling, the clock and the services do to waits.                *)

(* Scheduling, the clock and the task services start no wait and hand out  *)
(* no token: a task that is BLOCKED afterwards was before, with the same   *)
(* entry, and a wait they end has result 0.                                *)
NoNewWait ==
    \A t \in Task :
        /\ tasks'[t].state = "BLOCKED" => tasks'[t] = tasks[t]
        /\ tasks[t].state # "BLOCKED" =>
               tasks'[t].wait_result = tasks[t].wait_result
        /\ tasks[t].state = "BLOCKED" /\ tasks'[t].state # "BLOCKED" =>
               tasks'[t].wait_result = 0

LEMMA PendSVNoNewWait == TaskInv /\ PendSV => NoNewWait
<1> SUFFICES ASSUME TaskInv, PendSV, NEW t \in Task
             PROVE  /\ tasks'[t].state = "BLOCKED" => tasks'[t] = tasks[t]
                    /\ tasks[t].state # "BLOCKED" =>
                           tasks'[t].wait_result = tasks[t].wait_result
                    /\ tasks[t].state = "BLOCKED" => tasks'[t] = tasks[t]
  BY DEF NoNewWait
<1> DEFINE T == Preempted(tasks, current)
           next == next_index(T, current)
<1>1. current \in Task /\ tasks \in [Task -> TCB]
  BY DEF TaskInv, TaskTypeOK
<1>2. T \in [Task -> TCB]
  BY <1>1 DEF Preempted, TCB, State
<1>3. T[t] = IF t = current /\ tasks[t].state = "RUNNING"
             THEN [tasks[t] EXCEPT !.state = "READY"] ELSE tasks[t]
  BY <1>1 DEF Preempted, TCB
<1>4. T[idle_index].state = "READY"
  BY <1>1, TaskIndices
     DEF Preempted, TaskInv, IdleRunnable, ExecutingIsRunning, TCB
<1>5. next \in Task /\ T[next].state = "READY"
  BY <1>1, <1>2, <1>4, BestExists, NextIndex, TaskIndices DEF Best
<1>6. tasks' = [T EXCEPT ![next].state = "RUNNING"]
  BY DEF PendSV
<1> HIDE DEF T, next
<1>7. tasks'[t] = IF t = next THEN [T[t] EXCEPT !.state = "RUNNING"]
                  ELSE T[t]
  BY <1>2, <1>6
<1>8. CASE t = next
  BY <1>1, <1>2, <1>3, <1>5, <1>7, <1>8 DEF TCB
<1>9. CASE t # next
  BY <1>1, <1>3, <1>7, <1>9 DEF TCB
<1> QED
  BY <1>8, <1>9

LEMMA SysTickNoNewWait == TaskInv /\ SysTick => NoNewWait
<1> SUFFICES ASSUME TaskInv, SysTick, NEW t \in Task
             PROVE  /\ tasks'[t].state = "BLOCKED" => tasks'[t] = tasks[t]
                    /\ tasks[t].state # "BLOCKED" =>
                           tasks'[t].wait_result = tasks[t].wait_result
                    /\ tasks[t].state = "BLOCKED"
                            /\ tasks'[t].state # "BLOCKED" =>
                           tasks'[t].wait_result = 0
  BY DEF NoNewWait
<1>1. tasks[t] \in TCB
  BY DEF TaskInv, TaskTypeOK
<1>2. tasks'[t] = tick_task(tasks[t], ticks')
  BY DEF SysTick, tick_tasks
<1>3. CASE tasks[t].state = "SLEEPING" /\ tasks[t].sleep_ticks > 0
  <2>1. tasks'[t] = tick_sleeper(tasks[t])
    BY <1>2, <1>3 DEF tick_task, WaitExpired
  <2> QED
    BY <1>1, <1>3, <2>1 DEF tick_sleeper, TCB
<1>4. CASE WaitExpired(tasks[t], ticks')
  BY <1>1, <1>2, <1>4 DEF tick_task, task_wait_end, WaitExpired, TCB
<1>5. CASE /\ ~(tasks[t].state = "SLEEPING" /\ tasks[t].sleep_ticks > 0)
           /\ ~WaitExpired(tasks[t], ticks')
  BY <1>2, <1>5 DEF tick_task
<1> QED
  BY <1>3, <1>4, <1>5

LEMMA ServicesNoNewWait == TaskInv /\ Services => NoNewWait
<1> SUFFICES ASSUME TaskInv, NEW t \in ApplicationTask,
                    \/ TaskYield(t)
                    \/ \E d \in Delay : TaskDelay(t, d)
                    \/ \E id \in SuspendTarget :
                          TaskSuspend(t, id) \/ TaskResume(t, id)
             PROVE  NoNewWait
  BY DEF Services
<1>1. t \in Task /\ tasks \in [Task -> TCB]
  BY TaskIndices DEF TaskInv, TaskTypeOK
<1>2. InApp(t) => tasks[t].state = "RUNNING"
  BY <1>1, ThreadRuns DEF InApp
<1>3. CASE TaskYield(t)
  BY <1>3 DEF TaskYield, Svc, NoNewWait
<1>4. ASSUME NEW d \in Delay, TaskDelay(t, d)
      PROVE  NoNewWait
  BY <1>1, <1>2, <1>4 DEF TaskDelay, Svc, sleep_current, NoNewWait, TCB
<1>5. ASSUME NEW id \in SuspendTarget, TaskSuspend(t, id)
      PROVE  NoNewWait
  <2> DEFINE i == resolve(id, t)
  <2>1. tasks' = kernel_task_suspend(tasks, t, i)
    BY <1>5 DEF TaskSuspend, Svc
  <2> HIDE DEF i
  <2> QED
    BY <1>1, <2>1, TaskIndices DEF kernel_task_suspend, NoNewWait, TCB
<1>6. ASSUME NEW id \in SuspendTarget, TaskResume(t, id)
      PROVE  NoNewWait
  BY <1>1, <1>6, TaskIndices
     DEF TaskResume, Svc, kernel_task_resume, NoNewWait, TCB
<1> QED
  BY <1>3, <1>4, <1>5, <1>6

(* Waits that no step but the tick ends without a token.                   *)
KeepsWaits ==
    \A t \in Task : tasks[t].state = "BLOCKED" =>
        tasks'[t].state = "BLOCKED" \/ tasks'[t].wait_result = 1

LEMMA PendSVKeepsWaits == TaskInv /\ PendSV => KeepsWaits
<1> SUFFICES ASSUME TaskInv, PendSV, NEW t \in Task,
                    tasks[t].state = "BLOCKED"
             PROVE  tasks'[t].state = "BLOCKED"
  BY DEF KeepsWaits
<1> DEFINE T == Preempted(tasks, current)
           next == next_index(T, current)
<1>1. current \in Task /\ tasks \in [Task -> TCB]
  BY DEF TaskInv, TaskTypeOK
<1>2. T \in [Task -> TCB] /\ T[t] = tasks[t]
  BY <1>1 DEF Preempted, TCB, State
<1>3. T[idle_index].state = "READY"
  BY <1>1, TaskIndices
     DEF Preempted, TaskInv, IdleRunnable, ExecutingIsRunning, TCB
<1>4. next \in Task /\ T[next].state = "READY"
  BY <1>1, <1>2, <1>3, BestExists, NextIndex, TaskIndices DEF Best
<1>5. tasks' = [T EXCEPT ![next].state = "RUNNING"]
  BY DEF PendSV
<1> HIDE DEF T, next
<1> QED
  BY <1>2, <1>4, <1>5

LEMMA ServicesKeepWaits == TaskInv /\ Services => KeepsWaits
<1> SUFFICES ASSUME TaskInv, NEW t \in ApplicationTask,
                    \/ TaskYield(t)
                    \/ \E d \in Delay : TaskDelay(t, d)
                    \/ \E id \in SuspendTarget :
                          TaskSuspend(t, id) \/ TaskResume(t, id)
             PROVE  KeepsWaits
  BY DEF Services
<1>1. t \in Task /\ tasks \in [Task -> TCB]
  BY TaskIndices DEF TaskInv, TaskTypeOK
<1>2. InApp(t) => tasks[t].state = "RUNNING"
  BY <1>1, ThreadRuns DEF InApp
<1>3. CASE TaskYield(t)
  BY <1>3 DEF TaskYield, Svc, KeepsWaits
<1>4. ASSUME NEW d \in Delay, TaskDelay(t, d)
      PROVE  KeepsWaits
  BY <1>1, <1>2, <1>4 DEF TaskDelay, Svc, sleep_current, KeepsWaits, TCB
<1>5. ASSUME NEW id \in SuspendTarget, TaskSuspend(t, id)
      PROVE  KeepsWaits
  <2> DEFINE i == resolve(id, t)
  <2>1. tasks' = kernel_task_suspend(tasks, t, i)
    BY <1>5 DEF TaskSuspend, Svc
  <2> HIDE DEF i
  <2> QED
    BY <1>1, <2>1, TaskIndices DEF kernel_task_suspend, KeepsWaits, TCB
<1>6. ASSUME NEW id \in SuspendTarget, TaskResume(t, id)
      PROVE  KeepsWaits
  BY <1>1, <1>6, TaskIndices
     DEF TaskResume, Svc, kernel_task_resume, KeepsWaits, TCB
<1> QED
  BY <1>3, <1>4, <1>5, <1>6

-----------------------------------------------------------------------------
(* The wait of a call that blocked with BlockNow, against w, the ticks     *)
(* since it blocked: entry is the task's entry, place where the task is,   *)
(* c its call.  While it is BLOCKED the entry holds the deadline of the    *)
(* timeout and w counts at least the distance from its start; a wait that  *)
(* ended with result 0 has lasted for its timeout.                         *)

TimedWait(entry, place, c, now, w) ==
    place \in {"yield", "woken"} =>
        IF entry.state = "BLOCKED"
        THEN /\ [start   |-> entry.wait_start,
                 tick    |-> entry.wait_deadline,
                 forever |-> entry.wait_forever] =
                    task_wait_deadline(entry.wait_start, c.timeout)
             /\ w >= TickSub(now, entry.wait_start)
        ELSE entry.wait_result = 0 =>
                 c.timeout # JRT_WAIT_FOREVER /\ w >= c.timeout

LEMMA TimedBlock ==
    ASSUME NEW entry \in TCB, NEW object, NEW kind, NEW now \in Tick,
           NEW timeout \in Tick, NEW c, c.timeout = timeout, NEW place
    PROVE  TimedWait(task_wait_begin(entry, object, kind, now, timeout),
                     place, c, now, 0)
<1> DEFINE deadline == task_wait_deadline(now, timeout)
           after == task_wait_begin(entry, object, kind, now, timeout)
<1>1. /\ after.state = "BLOCKED" /\ after.wait_start = deadline.start
      /\ after.wait_deadline = deadline.tick
      /\ after.wait_forever = deadline.forever
  BY DEF task_wait_begin, task_wait_begin_until, TCB
<1>2. deadline.start = now
  BY DEF task_wait_deadline
<1>3. deadline = [start   |-> after.wait_start,
                  tick    |-> after.wait_deadline,
                  forever |-> after.wait_forever]
  BY <1>1 DEF task_wait_deadline
<1>4. TickSub(now, now) = 0
  BY TickDistance
<1>5. deadline = task_wait_deadline(after.wait_start, c.timeout)
  BY <1>1, <1>2
<1> HIDE DEF after, deadline
<1>6. [start   |-> after.wait_start,
       tick    |-> after.wait_deadline,
       forever |-> after.wait_forever] =
          task_wait_deadline(after.wait_start, c.timeout)
  BY <1>3, <1>5
<1>7. 0 >= TickSub(now, after.wait_start)
  BY <1>1, <1>2, <1>4
<1>8. TimedWait(after, place, c, now, 0)
  BY <1>1, <1>6, <1>7 DEF TimedWait
<1> QED
  BY <1>8 DEF after

LEMMA TimedTick ==
    ASSUME NEW entry \in TCB, NEW place, NEW c, c.timeout \in Tick,
           NEW now \in Tick, NEW w \in 0 .. TICK_MOD,
           TimedWait(entry, place, c, now, w)
    PROVE  TimedWait(tick_task(entry, TickAdd(now, 1)), place, c,
                     TickAdd(now, 1), IF w < TICK_MOD THEN w + 1 ELSE w)
<1> DEFINE later == TickAdd(now, 1)
           v == IF w < TICK_MOD THEN w + 1 ELSE w
           after == tick_task(entry, later)
           deadline == [start   |-> entry.wait_start,
                        tick    |-> entry.wait_deadline,
                        forever |-> entry.wait_forever]
<1> SUFFICES ASSUME place \in {"yield", "woken"}
             PROVE  TimedWait(after, place, c, later, v)
  BY DEF TimedWait
<1>1. /\ later \in Tick /\ TICK_MOD \in Nat /\ w \in Nat /\ v \in Nat
      /\ v >= w /\ (v >= w + 1 \/ v = TICK_MOD)
      /\ c.timeout \in Nat /\ entry.wait_start \in Tick
      /\ deadline \in Deadline
  <2>1. TICK_MOD \in Nat /\ w \in Nat /\ w <= TICK_MOD
    BY TaskTableAssumption
  <2>2. later \in Tick /\ c.timeout \in Nat
    <3>1. now \in Int /\ c.timeout \in Nat
      BY TaskTableAssumption DEF Tick
    <3> QED
      BY <3>1, TickTypes
  <2>3. entry.wait_start \in Tick /\ deadline \in Deadline
    BY DEF TCB, Deadline
  <2> QED
    BY <2>1, <2>2, <2>3
<1>2. CASE entry.state = "BLOCKED"
  <2>1. /\ deadline = task_wait_deadline(entry.wait_start, c.timeout)
        /\ w >= TickSub(now, entry.wait_start)
    BY <1>2 DEF TimedWait
  <2>2. /\ TickSub(now, entry.wait_start) \in Nat
        /\ TickSub(later, entry.wait_start) \in Nat
        /\ TickSub(later, entry.wait_start) < TICK_MOD
        /\ TickSub(later, entry.wait_start) <=
               TickSub(now, entry.wait_start) + 1
    BY <1>1, DistanceType, TickDistance
  <2>3. v >= TickSub(later, entry.wait_start)
    BY <1>1, <2>1, <2>2
  <2>4. CASE WaitExpired(entry, later)
    <3>1. after.state = "READY"
      BY <2>4 DEF tick_task, task_wait_end, WaitExpired, TCB
    <3>2. c.timeout # JRT_WAIT_FOREVER /\ v >= c.timeout
      <4>1. /\ deadline.forever = 0 /\ deadline.start = entry.wait_start
            /\ Elapsed(later, deadline.start, deadline.tick)
        BY <2>4 DEF WaitExpired
      <4> HIDE DEF deadline, later, v
      <4> QED
        BY <1>1, <2>1, <2>3, <4>1, ElapsedMeansWaited
    <3> QED
      BY <3>1, <3>2 DEF TimedWait
  <2>5. CASE ~WaitExpired(entry, later)
    <3>1. after = entry
      BY <1>2, <2>5 DEF tick_task
    <3> QED
      BY <1>2, <2>1, <2>3, <3>1 DEF TimedWait
  <2> QED
    BY <2>4, <2>5
<1>3. CASE entry.state # "BLOCKED"
  <2>1. after.state # "BLOCKED" /\ after.wait_result = entry.wait_result
    <3>1. CASE entry.state = "SLEEPING" /\ entry.sleep_ticks > 0
      <4>1. after = tick_sleeper(entry)
        BY <3>1 DEF tick_task, WaitExpired
      <4> QED
        BY <3>1, <4>1 DEF tick_sleeper, TCB
    <3>2. CASE ~(entry.state = "SLEEPING" /\ entry.sleep_ticks > 0)
      BY <1>3, <3>2 DEF tick_task, WaitExpired
    <3> QED
      BY <3>1, <3>2
  <2>2. entry.wait_result = 0 =>
            c.timeout # JRT_WAIT_FOREVER /\ w >= c.timeout
    BY <1>3 DEF TimedWait
  <2>3. entry.wait_result = 0 =>
            c.timeout # JRT_WAIT_FOREVER /\ v >= c.timeout
    BY <1>1, <2>2
  <2> HIDE DEF after, v, later
  <2> QED
    BY <2>1, <2>3 DEF TimedWait
<1> QED
  BY <1>2, <1>3

(* A step that is not a tick: the entry of a task that stays BLOCKED is    *)
(* the same, and a wait that ends has result 1.                            *)
LEMMA TimedStep ==
    ASSUME NEW entry, NEW after, NEW place, NEW place1, NEW c, NEW now, NEW w,
           TimedWait(entry, place, c, now, w),
           place1 \in {"yield", "woken"} => place \in {"yield", "woken"},
           after.state = "BLOCKED" => after = entry,
           entry.state # "BLOCKED" => after.wait_result = entry.wait_result,
           entry.state = "BLOCKED" /\ after.state # "BLOCKED" =>
               after.wait_result = 1
    PROVE  TimedWait(after, place1, c, now, w)
<1>1. CASE after.state = "BLOCKED"
  BY <1>1 DEF TimedWait
<1>2. CASE after.state # "BLOCKED" /\ entry.state # "BLOCKED"
  BY <1>2 DEF TimedWait
<1>3. CASE after.state # "BLOCKED" /\ entry.state = "BLOCKED"
  BY <1>3 DEF TimedWait
<1> QED
  BY <1>1, <1>2, <1>3

(* A task that executes behind its arch_yield with result 0 has waited for *)
(* its timeout.                                                            *)
LEMMA TimedReturn ==
    ASSUME TaskInv, NEW t \in Task, Thread(t), pc[t] = "woken", NEW w,
           TimedWait(tasks[t], pc[t], call[t], ticks, w)
    PROVE  \/ tasks[t].wait_result = 1
           \/ call[t].timeout # JRT_WAIT_FOREVER /\ w >= call[t].timeout
<1>1. tasks[t].state = "RUNNING"
  BY ThreadRuns
<1>2. tasks[t].wait_result \in {0, 1}
  BY DEF TaskInv, TaskTypeOK, TCB
<1> QED
  BY <1>1, <1>2 DEF TimedWait

-----------------------------------------------------------------------------
(* Theorems.                                                               *)

LEMMA TaskNextInv == TaskInv /\ [TaskNext]_taskVars => TaskInv'
<1> SUFFICES ASSUME TaskInv, [TaskNext]_taskVars
             PROVE  TaskInv'
  OBVIOUS
<1>1. CASE UNCHANGED taskVars
  BY <1>1
     DEF taskVars, TaskInv, TaskTypeOK, ExecutingIsRunning,
         KernelInvariantsHold, NoOverdueWaiter, IdleRunnable
<1>2. CASE TaskNext
  BY <1>2, PendSVInv, SysTickInv, ServicesInv DEF TaskNext
<1> QED
  BY <1>1, <1>2

(***************************************************************************)
(* With task services and scheduling alone, for every number of tasks and  *)
(* every priority assignment, the task table is well-typed, the task that  *)
(* executes is the one marked RUNNING and the idle task stays runnable     *)
(* (pendsv_switch, tick_tasks and svc_dispatch in any order).              *)
(***************************************************************************)
THEOREM TaskSafety == TaskSpec => [](TaskTypeOK /\ ExecutingIsRunning)
<1>1. TaskInit => TaskInv
  BY InitInv
<1>2. TaskInv /\ [TaskNext]_taskVars => TaskInv'
  BY TaskNextInv
<1>3. TaskInv => TaskTypeOK /\ ExecutingIsRunning
  BY DEF TaskInv
<1> QED
  BY <1>1, <1>2, <1>3, PTL DEF TaskSpec

(* The task that pendsv_switch selects is outranked by no READY task.      *)
PicksHighest ==
    pendsv = 1 /\ pendsv' = 0 =>
        \A t \in Task : tasks'[t].state = "READY" =>
            tasks'[t].priority <= tasks'[current'].priority

LEMMA PendSVPicks == TaskInv /\ PendSV => PicksHighest
<1> SUFFICES ASSUME TaskInv, PendSV
             PROVE  PicksHighest
  OBVIOUS
<1> DEFINE T == Preempted(tasks, current)
           next == next_index(T, current)
<1>1. current \in Task /\ tasks \in [Task -> TCB]
  BY DEF TaskInv, TaskTypeOK
<1>2. T \in [Task -> TCB]
  BY <1>1 DEF Preempted, TCB, State
<1>3. T[idle_index].state = "READY"
  BY <1>1, TaskIndices
     DEF Preempted, TaskInv, IdleRunnable, ExecutingIsRunning, TCB
<1>4. next \in Best(T)
  BY <1>1, <1>2, <1>3, BestExists, NextIndex, TaskIndices
<1>5. current' = next /\ tasks' = [T EXCEPT ![next].state = "RUNNING"]
  BY DEF PendSV
<1> HIDE DEF T, next
<1>6. /\ next \in Task
      /\ \A t \in Task : T[t].state = "READY" =>
            T[t].priority <= T[next].priority
  BY <1>4 DEF Best
<1>7. ASSUME NEW t \in Task
      PROVE  /\ tasks'[t].priority = T[t].priority
             /\ t # next => tasks'[t] = T[t]
             /\ tasks'[next].state = "RUNNING"
  BY <1>2, <1>5, <1>6 DEF TCB
<1> QED
  BY <1>5, <1>6, <1>7 DEF PicksHighest

(***************************************************************************)
(* Every scheduling decision of pendsv_switch gives the core to a task     *)
(* that no READY task outranks, for every priority assignment.             *)
(***************************************************************************)
THEOREM SchedulingIsByPriority == TaskSpec => HighestPriorityRuns
<1>1. ASSUME TaskInv, [TaskNext]_taskVars
      PROVE  [PicksHighest]_taskVars
  <2>1. CASE PendSV
    BY <1>1, <2>1, PendSVPicks
  <2>2. CASE SysTick \/ Services
    <3>1. pendsv' = 1
      BY <2>2
         DEF SysTick, SysTickClock, Services, TaskYield, TaskDelay,
             TaskSuspend, TaskResume, Svc
    <3> QED
      BY <3>1 DEF PicksHighest
  <2>3. CASE UNCHANGED taskVars
    BY <2>3
  <2> QED
    BY <1>1, <2>1, <2>2, <2>3 DEF TaskNext
<1>2. TaskSpec => [][PicksHighest]_taskVars
  BY <1>1, InitInv, TaskNextInv, PTL DEF TaskSpec
<1> QED
  BY <1>2 DEF HighestPriorityRuns, PicksHighest
=============================================================================
