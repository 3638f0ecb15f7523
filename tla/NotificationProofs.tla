-------------------------- MODULE NotificationProofs -------------------------
(***************************************************************************)
(* Task notifications lose nothing and come back empty-handed only with a  *)
(* reason, and the benchmark records that hang on the same steps close     *)
(* every activation: for every number of tasks, every priority assignment, *)
(* every timeout and every width of the counters.                          *)
(***************************************************************************)
EXTENDS Benchmark, TaskProofs

(* The ticks a task counts itself bound the wait the kernel measures.      *)
WaitsTimed ==
    \A t \in Task : TimedWait(tasks[t], pc[t], call[t], ticks, waited[t])

NoteInv == TaskInv /\ NoLostNotification /\ WaitsTimed

LEMMA NoteTypes ==
    ASSUME NoteInv
    PROVE  /\ tasks \in [Task -> TCB] /\ ticks \in Tick
           /\ pc \in [Task -> {"app", "attempt", "yield", "woken", "callback"}]
           /\ call \in [Task -> Call]
           /\ notification_value \in [Task -> 0 .. NOTIFY_MOD - 1]
           /\ waited \in [Task -> 0 .. TICK_MOD]
           /\ 0 \in 0 .. NOTIFY_MOD - 1 /\ 0 \in 0 .. TICK_MOD
BY NotificationAssumption, TaskTableAssumption
   DEF NoteInv, NoLostNotification, TypeOK, TaskTypeOK

LEMMA NoteInit == Init => NoteInv
<1> SUFFICES ASSUME Init
             PROVE  NoteInv
  OBVIOUS
<1>1. TaskInv
  BY InitInv DEF Init
<1>2. TypeOK
  BY <1>1, TaskTableAssumption, NotificationAssumption
     DEF Init, TypeOK, TaskInv
<1>3. \A t \in Task : pc[t] = "app"
  BY DEF Init, TaskInit
<1>4. \A t \in Task : tasks[t].wait_kind # "NOTIFICATION"
  BY DEF Init, TaskInit, JRT_KernelInit, prepare_task,
         prepare_timer_service_task, task_wait_begin, task_wait_begin_until
<1> QED
  BY <1>1, <1>2, <1>3, <1>4
     DEF NoteInv, NoLostNotification, WaitsTimed, TimedWait

(* Steps of the scheduler and of the task services.                        *)
LEMMA NoteKernelStep ==
    ASSUME NoteInv, TaskInv', NoNewWait, KeepsWaits,
           UNCHANGED <<ticks, pc, call, notification_value, waited>>
    PROVE  NoteInv'
<1>1. NoLostNotification'
  BY DEF NoteInv, TaskInv, NoLostNotification, TypeOK, NoNewWait
<1>2. WaitsTimed'
  <2> SUFFICES ASSUME NEW t \in Task
               PROVE  TimedWait(tasks'[t], pc'[t], call'[t], ticks', waited'[t])
    BY DEF WaitsTimed
  <2>1. TimedWait(tasks[t], pc[t], call[t], ticks, waited[t])
    BY DEF NoteInv, WaitsTimed
  <2>2. /\ tasks'[t].state = "BLOCKED" => tasks'[t] = tasks[t]
        /\ tasks[t].state # "BLOCKED" =>
               tasks'[t].wait_result = tasks[t].wait_result
        /\ tasks[t].state = "BLOCKED" /\ tasks'[t].state # "BLOCKED" =>
               tasks'[t].wait_result = 1
    BY DEF NoNewWait, KeepsWaits
  <2>3. TimedWait(tasks'[t], pc[t], call[t], ticks, waited[t])
    BY <2>1, <2>2, TimedStep
  <2> QED
    BY <2>3
<1> QED
  BY <1>1, <1>2 DEF NoteInv

LEMMA NoteTickInv ==
    ASSUME NoteInv, ClockTick
    PROVE  NoteInv'
<1>1. /\ SysTick /\ ticks' = TickAdd(ticks, 1)
      /\ UNCHANGED <<pc, call, notification_value>>
      /\ waited' = [t \in Task |-> IF pc[t] # "app" /\ waited[t] < TICK_MOD
                                   THEN waited[t] + 1 ELSE waited[t]]
  BY DEF ClockTick, SysTick, SysTickClock
<1>2. TaskInv' /\ NoNewWait
  BY <1>1, SysTickInv, SysTickNoNewWait DEF NoteInv
<1>3. waited' \in [Task -> 0 .. TICK_MOD]
  <2>1. waited \in [Task -> 0 .. TICK_MOD] /\ TICK_MOD \in Nat
    BY NoteTypes, TaskTableAssumption
  <2> QED
    BY <1>1, <2>1
<1>4. NoLostNotification'
  BY <1>1, <1>2, <1>3
     DEF NoteInv, TaskInv, NoLostNotification, TypeOK, NoNewWait
<1>5. WaitsTimed'
  <2> SUFFICES ASSUME NEW t \in Task
               PROVE  TimedWait(tasks'[t], pc'[t], call'[t], ticks', waited'[t])
    BY DEF WaitsTimed
  <2>1. /\ tasks[t] \in TCB /\ ticks \in Tick /\ call[t].timeout \in Tick
        /\ waited[t] \in 0 .. TICK_MOD
    BY NoteTypes DEF Call
  <2>2. TimedWait(tasks[t], pc[t], call[t], ticks, waited[t])
    BY DEF NoteInv, WaitsTimed
  <2>3. tasks'[t] = tick_task(tasks[t], TickAdd(ticks, 1))
    BY <1>1 DEF SysTick, tick_tasks
  <2>4. CASE pc[t] = "app"
    BY <1>1, <2>4 DEF TimedWait
  <2>5. CASE pc[t] # "app"
    <3>1. waited'[t] = IF waited[t] < TICK_MOD THEN waited[t] + 1
                       ELSE waited[t]
      BY <1>1, <2>5
    <3> QED
      BY <1>1, <2>1, <2>2, <2>3, <3>1, TimedTick
  <2> QED
    BY <2>4, <2>5
<1> QED
  BY <1>2, <1>4, <1>5 DEF NoteInv

LEMMA TakeNowInv ==
    ASSUME NoteInv, NEW t \in ApplicationTask, TakeNow(t)
    PROVE  NoteInv'
<1>1. /\ notification_value' = [notification_value EXCEPT ![t] = 0]
      /\ UNCHANGED <<tasks, current, ticks, pendsv, pc, call, waited>>
  BY DEF TakeNow, Clear, taskVars
<1>2. t \in Task
  BY TaskIndices
<1>3. TaskInv'
  BY <1>1, SameTableInv DEF NoteInv
<1>4. NoLostNotification'
  <2>1. /\ notification_value' \in [Task -> 0 .. NOTIFY_MOD - 1]
        /\ \A u \in Task : notification_value[u] = 0 =>
               notification_value'[u] = 0
    BY <1>1, <1>2, NoteTypes
  <2> QED
    BY <1>1, <1>3, <2>1 DEF NoteInv, TaskInv, NoLostNotification, TypeOK
<1>5. WaitsTimed'
  BY <1>1 DEF NoteInv, WaitsTimed
<1> QED
  BY <1>3, <1>4, <1>5 DEF NoteInv

LEMMA TakeBlockInv ==
    ASSUME NoteInv, NEW t \in ApplicationTask, NEW timeout \in Timeout,
           TakeBlock(t, timeout)
    PROVE  NoteInv'
<1> DEFINE entry == task_wait_begin(tasks[t], t, "NOTIFICATION", ticks, timeout)
           c == [NoCall EXCEPT !.op = "notify_take", !.object = t,
                               !.timeout = timeout]
<1>1. /\ Thread(t) /\ notification_value[t] = 0 /\ timeout # 0
      /\ BlockNow(t, "notify_take", t, "NOTIFICATION", timeout)
      /\ waited' = [waited EXCEPT ![t] = 0]
      /\ UNCHANGED notification_value
  BY DEF TakeBlock, InApp
<1>2. t \in Task /\ t \in Object /\ timeout \in Tick
  BY TaskIndices, NotificationAssumption, TaskAssumption
<1>3. TaskInv'
  <2>1. "notify_take" \in Operation /\ "NOTIFICATION" \in WaitKind
    BY DEF Operation, WaitKind
  <2> QED
    BY <1>1, <1>2, <2>1, BlockNowInv DEF NoteInv
<1>4. /\ tasks' = [tasks EXCEPT ![t] = entry]
      /\ pc' = [pc EXCEPT ![t] = "yield"]
      /\ call' = [call EXCEPT ![t] = c]
      /\ UNCHANGED ticks
  BY <1>1 DEF BlockNow
<1>5. c.timeout = timeout
  BY DEF NoCall
<1>6. TimedWait(entry, "yield", c, ticks, 0)
  BY <1>2, <1>5, NoteTypes, TimedBlock
<1> HIDE DEF entry, c
<1>7. /\ tasks'[t] = entry /\ pc'[t] = "yield" /\ call'[t] = c
      /\ waited'[t] = 0
      /\ \A u \in Task \ {t} : /\ tasks'[u] = tasks[u] /\ pc'[u] = pc[u]
                               /\ call'[u] = call[u] /\ waited'[u] = waited[u]
  BY <1>1, <1>2, <1>4, NoteTypes
<1>8. NoLostNotification'
  <2>1. waited' \in [Task -> 0 .. TICK_MOD]
    BY <1>1, NoteTypes
  <2>2. \A u \in Task :
           (tasks'[u].state = "BLOCKED" /\ tasks'[u].wait_kind = "NOTIFICATION")
               => notification_value'[u] = 0
    BY <1>1, <1>7 DEF NoteInv, NoLostNotification
  <2> QED
    BY <1>1, <1>3, <2>1, <2>2 DEF NoteInv, TaskInv, NoLostNotification, TypeOK
<1>9. WaitsTimed'
  <2> SUFFICES ASSUME NEW u \in Task
               PROVE  TimedWait(tasks'[u], pc'[u], call'[u], ticks, waited'[u])
    BY <1>4 DEF WaitsTimed
  <2>1. CASE u = t
    BY <1>6, <1>7, <2>1
  <2>2. CASE u # t
    BY <1>7, <2>2 DEF NoteInv, WaitsTimed
  <2> QED
    BY <2>1, <2>2
<1> QED
  BY <1>3, <1>8, <1>9 DEF NoteInv

LEMMA TakeWokenInv ==
    ASSUME NoteInv, NEW t \in ApplicationTask, TakeWoken(t)
    PROVE  NoteInv'
<1>1. /\ pc[t] = "woken" /\ Return(t) /\ UNCHANGED <<tasks, ticks>>
      /\ pc' = [pc EXCEPT ![t] = "app"]
      /\ call' = [call EXCEPT ![t] = NoCall]
      /\ notification_value' = [notification_value EXCEPT ![t] = 0]
      /\ waited' = [waited EXCEPT ![t] = 0]
  BY DEF TakeWoken, Woken, Clear, Return
<1>2. t \in Task
  BY TaskIndices
<1>3. TaskInv'
  BY <1>1, <1>2, ReturnInv DEF NoteInv
<1>4. NoLostNotification'
  <2>1. /\ notification_value' \in [Task -> 0 .. NOTIFY_MOD - 1]
        /\ waited' \in [Task -> 0 .. TICK_MOD]
        /\ \A u \in Task : notification_value[u] = 0 =>
               notification_value'[u] = 0
    BY <1>1, <1>2, NoteTypes
  <2> QED
    BY <1>1, <1>3, <2>1 DEF NoteInv, TaskInv, NoLostNotification, TypeOK
<1>5. WaitsTimed'
  <2> SUFFICES ASSUME NEW u \in Task
               PROVE  TimedWait(tasks[u], pc'[u], call'[u], ticks, waited'[u])
    BY <1>1 DEF WaitsTimed
  <2>1. CASE u = t
    <3>1. pc'[u] = "app"
      BY <1>1, <1>2, <2>1, NoteTypes
    <3> QED
      BY <3>1 DEF TimedWait
  <2>2. CASE u # t
    <3>1. pc'[u] = pc[u] /\ call'[u] = call[u] /\ waited'[u] = waited[u]
      BY <1>1, <1>2, <2>2, NoteTypes
    <3> QED
      BY <3>1 DEF NoteInv, WaitsTimed
  <2> QED
    BY <2>1, <2>2
<1> QED
  BY <1>3, <1>4, <1>5 DEF NoteInv

LEMMA NoteYieldInv ==
    ASSUME NoteInv, NEW t \in ApplicationTask, ArchYield(t),
           UNCHANGED noteVars
    PROVE  NoteInv'
<1>1. /\ pc[t] = "yield" /\ pc' = [pc EXCEPT ![t] = "woken"]
      /\ UNCHANGED <<tasks, ticks, call, notification_value, waited>>
  BY DEF ArchYield, noteVars
<1>2. t \in Task
  BY TaskIndices
<1>3. TaskInv'
  BY <1>2, ArchYieldInv DEF NoteInv
<1>4. NoLostNotification'
  BY <1>1, <1>3 DEF NoteInv, TaskInv, NoLostNotification, TypeOK
<1>5. WaitsTimed'
  <2> SUFFICES ASSUME NEW u \in Task
               PROVE  TimedWait(tasks[u], pc'[u], call[u], ticks, waited[u])
    BY <1>1 DEF WaitsTimed
  <2>1. pc'[u] \in {"yield", "woken"} => pc[u] \in {"yield", "woken"}
    BY <1>1, <1>2, NoteTypes
  <2>2. TimedWait(tasks[u], pc[u], call[u], ticks, waited[u])
    BY DEF NoteInv, WaitsTimed
  <2> QED
    BY <2>1, <2>2 DEF TimedWait
<1> QED
  BY <1>3, <1>4, <1>5 DEF NoteInv

(* A notification adds to the value and in the same critical section ends  *)
(* the wait of the task, so that no BLOCKED task has a value.              *)
LEMMA NotifiedInv ==
    ASSUME NoteInv, NEW id, NEW value \in NotifyValue, Notified(id, value)
    PROVE  NoteInv'
<1>1. /\ id \in Task
      /\ notification_value' =
            [notification_value EXCEPT ![id] = (@ + value) % NOTIFY_MOD]
      /\ UNCHANGED <<current, ticks, pc, call, waited>> /\ pendsv' = 1
  BY DEF Notified
<1>2. notification_value' \in [Task -> 0 .. NOTIFY_MOD - 1]
  <2>1. /\ notification_value[id] \in Nat /\ value \in Nat
        /\ NOTIFY_MOD \in Nat \ {0}
    BY <1>1, NoteTypes, NotificationAssumption
  <2>2. (notification_value[id] + value) % NOTIFY_MOD \in 0 .. NOTIFY_MOD - 1
    BY <2>1
  <2> QED
    BY <1>1, <2>2, NoteTypes
<1>3. \A u \in Task \ {id} : notification_value'[u] = notification_value[u]
  BY <1>1, NoteTypes
<1>4. CASE tasks[id].state = "BLOCKED" /\ tasks[id].wait_kind = "NOTIFICATION"
  <2>1. tasks' = [tasks EXCEPT ![id] = task_wait_end(tasks[id], 1)]
    BY <1>4 DEF Notified
  <2>2. TaskInv'
    BY <1>1, <1>4, <2>1, EndWaitInv DEF NoteInv
  <2>3. /\ tasks'[id].state = "READY" /\ tasks'[id].wait_result = 1
        /\ \A u \in Task \ {id} : tasks'[u] = tasks[u]
    <3>1. tasks[id] \in TCB
      BY <1>1, NoteTypes
    <3> QED
      BY <1>1, <2>1, <3>1, NoteTypes DEF task_wait_end, TCB
  <2>4. NoLostNotification'
    BY <1>1, <1>2, <1>3, <2>2, <2>3
       DEF NoteInv, TaskInv, NoLostNotification, TypeOK
  <2>5. WaitsTimed'
    <3> SUFFICES ASSUME NEW u \in Task
                 PROVE  TimedWait(tasks'[u], pc[u], call[u], ticks, waited[u])
      BY <1>1 DEF WaitsTimed
    <3>1. TimedWait(tasks[u], pc[u], call[u], ticks, waited[u])
      BY DEF NoteInv, WaitsTimed
    <3>2. CASE u = id
      BY <1>4, <2>3, <3>1, <3>2, TimedStep
    <3>3. CASE u # id
      BY <2>3, <3>1, <3>3
    <3> QED
      BY <3>2, <3>3
  <2> QED
    BY <2>2, <2>4, <2>5 DEF NoteInv
<1>5. CASE ~(tasks[id].state = "BLOCKED"
                /\ tasks[id].wait_kind = "NOTIFICATION")
  <2>1. tasks' = tasks
    BY <1>5 DEF Notified
  <2>2. TaskInv'
    BY <1>1, <2>1, SameTableInv DEF NoteInv
  <2>3. NoLostNotification'
    BY <1>1, <1>2, <1>3, <1>5, <2>1, <2>2
       DEF NoteInv, TaskInv, NoLostNotification, TypeOK
  <2>4. WaitsTimed'
    BY <1>1, <2>1 DEF NoteInv, WaitsTimed
  <2> QED
    BY <2>2, <2>3, <2>4 DEF NoteInv
<1> QED
  BY <1>4, <1>5

LEMMA NoteNext == NoteInv /\ [Next]_vars => NoteInv'
<1> SUFFICES ASSUME NoteInv, [Next]_vars
             PROVE  NoteInv'
  OBVIOUS
<1>1. CASE UNCHANGED vars
  <2>1. TaskInv'
    BY <1>1, SameTableInv DEF NoteInv, vars
  <2>2. NoLostNotification' /\ WaitsTimed'
    BY <1>1, <2>1
       DEF vars, NoteInv, TaskInv, NoLostNotification, TypeOK, WaitsTimed
  <2> QED
    BY <2>1, <2>2 DEF NoteInv
<1>2. CASE PendSV /\ UNCHANGED noteVars
  <2>1. UNCHANGED <<ticks, pc, call, notification_value, waited>>
    BY <1>2 DEF PendSV, noteVars
  <2> QED
    BY <1>2, <2>1, PendSVInv, PendSVNoNewWait, PendSVKeepsWaits,
       NoteKernelStep DEF NoteInv
<1>3. CASE ClockTick
  BY <1>3, NoteTickInv
<1>4. CASE Services /\ UNCHANGED noteVars
  <2>1. UNCHANGED <<ticks, pc, call, notification_value, waited>>
    BY <1>4 DEF Services, TaskYield, TaskDelay, TaskSuspend, TaskResume, Svc,
                noteVars
  <2> QED
    BY <1>4, <2>1, ServicesInv, ServicesNoNewWait, ServicesKeepWaits,
       NoteKernelStep DEF NoteInv
<1>5. ASSUME NEW t \in ApplicationTask, NEW timeout \in Timeout,
             Take(t, timeout)
      PROVE  NoteInv'
  BY <1>5, TakeNowInv, TakeBlockInv DEF Take
<1>6. ASSUME NEW t \in ApplicationTask, Continue(t)
      PROVE  NoteInv'
  BY <1>6, NoteYieldInv, TakeWokenInv DEF Continue
<1>7. ASSUME NEW id \in NotifyTarget, NEW v \in NotifyValue, Notify(id, v)
      PROVE  NoteInv'
  BY <1>7, NotifiedInv DEF Notify, TaskNotify, TaskNotifyFromISR
<1> QED
  BY <1>1, <1>2, <1>3, <1>4, <1>5, <1>6, <1>7 DEF Next

LEMMA NoteInvariant == Safety => []NoteInv
BY NoteInit, NoteNext, PTL DEF Safety

-----------------------------------------------------------------------------
(***************************************************************************)
(* JRT_TaskNotify and JRT_TaskNotifyFromISR are never lost: no task is     *)
(* BLOCKED in JRT_TaskNotifyTake while its value is not zero, whatever     *)
(* comes between its test and its block.                                   *)
(***************************************************************************)
THEOREM NotificationsAreNotLost == Safety => []NoLostNotification
<1>1. NoteInv => NoLostNotification
  BY DEF NoteInv
<1> QED
  BY <1>1, NoteInvariant, PTL

(* What EmptyTakeExplained says of one task and one step.                  *)
EmptyExplained(t) ==
    (Returns(t) /\ notification_value[t] = 0) =>
        \/ tasks[t].wait_result = 1
        \/ /\ call[t].timeout # JRT_WAIT_FOREVER
           /\ waited[t] >= call[t].timeout

(* JRT_TaskNotifyTake returns from a wait in one place only.               *)
LEMMA ReturnsAreWoken ==
    ASSUME NoteInv, Next, NEW u \in Task, Returns(u)
    PROVE  TakeWoken(u)
<1>1. pc \in [Task -> {"app", "attempt", "yield", "woken", "callback"}]
  BY NoteTypes
<1>2. ~UNCHANGED pc
  BY DEF Returns
<1>3. ~(PendSV \/ ClockTick \/ Services)
  BY <1>2 DEF PendSV, ClockTick, SysTick, SysTickClock, Services, TaskYield,
              TaskDelay, TaskSuspend, TaskResume, Svc
<1>4. ASSUME NEW id, NEW v, Notify(id, v)
      PROVE  FALSE
  BY <1>2, <1>4 DEF Notify, TaskNotify, TaskNotifyFromISR, Notified
<1>5. ASSUME NEW t \in ApplicationTask, NEW timeout, Take(t, timeout)
      PROVE  FALSE
  <2>1. UNCHANGED pc \/ pc' = [pc EXCEPT ![t] = "yield"]
    BY <1>5 DEF Take, TakeNow, TakeBlock, BlockNow, taskVars
  <2> QED
    BY <1>1, <1>2, <2>1 DEF Returns
<1>6. ASSUME NEW t \in ApplicationTask, ArchYield(t)
      PROVE  FALSE
  BY <1>1, <1>6 DEF ArchYield, Returns
<1>7. ASSUME NEW t \in ApplicationTask, TakeWoken(t)
      PROVE  t = u
  BY <1>1, <1>7 DEF TakeWoken, Return, Returns
<1> QED
  BY <1>3, <1>4, <1>5, <1>6, <1>7 DEF Next, Continue

(***************************************************************************)
(* JRT_TaskNotifyTake never comes back empty-handed without a reason: it   *)
(* was notified, and the values add up to 0, or its finite timeout has     *)
(* gone by in real ticks, across wraparound of the tick counter.           *)
(***************************************************************************)
THEOREM EmptyTakesAreExplained == Safety => EmptyTakeExplained
<1>1. ASSUME NoteInv, [Next]_vars
      PROVE  [\A t \in Task : EmptyExplained(t)]_vars
  <2> SUFFICES ASSUME Next, NEW u \in Task, Returns(u)
               PROVE  \/ tasks[u].wait_result = 1
                      \/ /\ call[u].timeout # JRT_WAIT_FOREVER
                         /\ waited[u] >= call[u].timeout
    BY <1>1 DEF EmptyExplained
  <2>1. Thread(u) /\ pc[u] = "woken"
    BY <1>1, ReturnsAreWoken DEF TakeWoken, Woken
  <2>2. TimedWait(tasks[u], pc[u], call[u], ticks, waited[u])
    BY <1>1 DEF NoteInv, WaitsTimed
  <2> QED
    BY <1>1, <2>1, <2>2, TimedReturn DEF NoteInv
<1>2. [\A t \in Task : EmptyExplained(t)]_vars =>
      [\A t \in Task :
        (Returns(t) /\ notification_value[t] = 0) =>
            \/ tasks[t].wait_result = 1
            \/ /\ call[t].timeout # JRT_WAIT_FOREVER
               /\ waited[t] >= call[t].timeout]_vars
  BY DEF EmptyExplained
<1> QED
  BY <1>1, <1>2, NoteInvariant, PTL DEF Safety, EmptyTakeExplained

-----------------------------------------------------------------------------
(* Benchmark records.  A record follows the state of its task: nothing is  *)
(* open while the task is off the core, nothing is pending once it runs,   *)
(* and stamps in use are fresh, except behind a suspend of a READY task,   *)
(* which p tells.                                                          *)

RecordOK(r, state, p) ==
    /\ r.activation_active = 1 => r.activation_start_cycle = "fresh"
    /\ r.release_pending = 1 => r.release_cycle = "fresh" \/ p
    /\ (r.release_pending = 1 /\ r.activation_active = 1) => p
    /\ state \in {"BLOCKED", "SLEEPING"} => r.activation_active = 0
    /\ state = "SUSPENDED" => r.activation_active = 0 \/ p
    /\ state # "READY" => r.release_pending = 0 \/ p
    /\ benchmark_cycle_counter_available = 0 =>
           r.activation_active = 0 /\ r.release_pending = 0

BenchmarkInv ==
    /\ NoteInv
    /\ BenchmarkTypeOK
    /\ \A t \in Watched : RecordOK(record[t], tasks[t].state, parked[t])

(* A step of one record from r to q: balanced, and measured from a fresh   *)
(* stamp.                                                                  *)
RecordStep(r, q, p) ==
    /\ Balance(q) = Balance(r) \/ p
    /\ (r.release_pending = 1 /\ q.release_pending = 0) =>
           r.release_cycle = "fresh" \/ p
    /\ (r.activation_active = 1 /\ q.activation_active = 0) =>
           r.activation_start_cycle = "fresh"

LEMMA Division ==
    ASSUME NEW x \in Int, NEW m \in Nat \ {0}
    PROVE  /\ x \div m \in Int /\ x % m \in 0 .. m - 1
           /\ x = m * (x \div m) + (x % m)
OBVIOUS

LEMMA Multiple ==
    ASSUME NEW m \in Nat \ {0}, NEW k \in Nat \ {0}
    PROVE  m * k >= m
<1>1. m * (k - 1) >= 0 /\ m * k = m * (k - 1) + m
  OBVIOUS
<1> QED
  BY <1>1

LEMMA ModuloShift ==
    ASSUME NEW x \in Int, NEW m \in Nat \ {0}
    PROVE  (x + m) % m = x % m
<1> DEFINE q == x \div m
           r == x % m
           p == (x + m) \div m
           s == (x + m) % m
<1>1. q \in Int /\ r \in 0 .. m - 1 /\ x = m * q + r
  BY Division
<1>2. p \in Int /\ s \in 0 .. m - 1 /\ x + m = m * p + s
  <2>1. x + m \in Int
    OBVIOUS
  <2> QED
    BY <2>1, Division
<1> SUFFICES s = r
  OBVIOUS
<1> HIDE DEF q, r, p, s
<1>3. m * q \in Int /\ m * p \in Int /\ r \in Int /\ s \in Int
  BY <1>1, <1>2
<1>4. m * (p - q - 1) = r - s /\ m * (q + 1 - p) = s - r
  <2>1. m * (p - q - 1) = m * p - m * q - m
    BY <1>1, <1>2
  <2>2. m * (q + 1 - p) = m * q + m - m * p
    BY <1>1, <1>2
  <2> QED
    BY <1>1, <1>2, <1>3, <2>1, <2>2
<1>5. CASE p - q - 1 > 0
  <2>1. m * (p - q - 1) >= m
    BY <1>1, <1>2, <1>5, Multiple
  <2> QED
    BY <1>1, <1>2, <1>3, <1>4, <2>1
<1>6. CASE q + 1 - p > 0
  <2>1. m * (q + 1 - p) >= m
    BY <1>1, <1>2, <1>6, Multiple
  <2> QED
    BY <1>1, <1>2, <1>3, <1>4, <2>1
<1>7. CASE p - q - 1 = 0
  BY <1>3, <1>4, <1>7
<1> QED
  BY <1>1, <1>2, <1>5, <1>6, <1>7

(* Counting on wraps: modulo COUNT_MOD it adds one.                        *)
LEMMA CountType ==
    ASSUME NEW n \in 0 .. COUNT_MOD - 1
    PROVE  /\ Count(n) \in 0 .. COUNT_MOD - 1
           /\ \A x \in Int : /\ (Count(n) - x) % COUNT_MOD
                                  = (n + 1 - x) % COUNT_MOD
                             /\ (x - Count(n)) % COUNT_MOD
                                  = (x - (n + 1)) % COUNT_MOD
<1> DEFINE m == COUNT_MOD
<1>1. n \in Nat /\ m \in Nat \ {0} /\ n < m /\ m \in Int
  BY BenchmarkAssumption
<1> HIDE DEF m
<1>2. CASE n + 1 < m
  <2>1. Count(n) = n + 1
    BY <1>1, <1>2 DEF Count, m
  <2> QED
    BY <1>1, <1>2, <2>1 DEF m
<1>3. CASE n + 1 = m
  <2>1. Count(n) = 0
    BY <1>1, <1>3 DEF Count, m
  <2>2. ASSUME NEW x \in Int
        PROVE  /\ (0 - x) % m = (n + 1 - x) % m
               /\ (x - 0) % m = (x - (n + 1)) % m
    <3>1. ((0 - x) + m) % m = (0 - x) % m
      <4> DEFINE y == 0 - x
      <4>1. y \in Int
        OBVIOUS
      <4> HIDE DEF y
      <4>2. (y + m) % m = y % m
        BY <1>1, <4>1, ModuloShift
      <4> QED
        BY <4>2 DEF y
    <3>2. (0 - x) + m = n + 1 - x
      BY <1>1, <1>3
    <3>3. ((x - (n + 1)) + m) % m = (x - (n + 1)) % m
      <4> DEFINE y == x - (n + 1)
      <4>1. y \in Int
        BY <1>1
      <4> HIDE DEF y
      <4>2. (y + m) % m = y % m
        BY <1>1, <4>1, ModuloShift
      <4> QED
        BY <4>2 DEF y
    <3>4. (x - (n + 1)) + m = x - 0
      BY <1>1, <1>3
    <3> QED
      BY <3>1, <3>2, <3>3, <3>4
  <2>3. 0 \in 0 .. COUNT_MOD - 1
    BY <1>1 DEF m
  <2> QED
    BY <2>1, <2>2, <2>3 DEF m
<1> QED
  BY <1>1, <1>2, <1>3

LEMMA RecordTypes ==
    ASSUME NEW r \in JRT_TaskBenchmarkRecord
    PROVE  /\ r.release_count \in 0 .. COUNT_MOD - 1
           /\ r.completion_count \in 0 .. COUNT_MOD - 1
           /\ r.coalesced_count \in 0 .. COUNT_MOD - 1
           /\ r.release_count \in Int /\ r.completion_count \in Int
           /\ r.release_cycle \in Stamp /\ r.activation_start_cycle \in Stamp
           /\ r.release_pending \in {0, 1} /\ r.activation_active \in {0, 1}
BY DEF JRT_TaskBenchmarkRecord

LEMMA ReleaseRecord ==
    ASSUME NEW r \in JRT_TaskBenchmarkRecord, NEW p \in BOOLEAN,
           NEW state \in Off, RecordOK(r, state, p),
           NEW coalesced \in BOOLEAN, benchmark_cycle_counter_available = 1
    PROVE  LET q == task_benchmark_release(r, coalesced)
           IN  /\ q \in JRT_TaskBenchmarkRecord
               /\ RecordOK(q, "READY", p)
               /\ RecordStep(r, q, p)
<1> DEFINE q == task_benchmark_release(r, coalesced)
<1>1. /\ Count(r.release_count) \in 0 .. COUNT_MOD - 1
      /\ Count(r.coalesced_count) \in 0 .. COUNT_MOD - 1
  BY RecordTypes, CountType
<1>2. /\ q \in JRT_TaskBenchmarkRecord
      /\ q.release_count = Count(r.release_count)
      /\ q.completion_count = r.completion_count
      /\ q.release_cycle = IF r.release_pending = 0 THEN "fresh" ELSE "stale"
      /\ q.release_pending = 1
      /\ q.activation_active = r.activation_active
      /\ q.activation_start_cycle = r.activation_start_cycle
  BY <1>1 DEF task_benchmark_release, JRT_TaskBenchmarkRecord, Stamp
<1> HIDE DEF q
<1>3. r.release_pending = 0 \/ p
  BY DEF RecordOK, Off
<1>4. r.activation_active = 0 \/ p
  BY DEF RecordOK, Off
<1>5. RecordOK(q, "READY", p)
  BY <1>2, <1>3, <1>4, RecordTypes DEF RecordOK
<1>6. r.release_pending = 0 => Balance(q) = Balance(r)
  <2> DEFINE x == r.completion_count + 1 + r.activation_active
  <2> SUFFICES ASSUME r.release_pending = 0
               PROVE  Balance(q) = Balance(r)
    OBVIOUS
  <2>1. /\ r.release_count \in Int /\ r.completion_count \in Int
        /\ r.activation_active \in Int /\ COUNT_MOD \in Int
        /\ q.release_count \in Int /\ x \in Int
    BY <1>1, <1>2, RecordTypes, BenchmarkAssumption
  <2>2. (q.release_count - x) % COUNT_MOD =
            (r.release_count + 1 - x) % COUNT_MOD
    <3> DEFINE n == r.release_count
    <3>1. n \in 0 .. COUNT_MOD - 1
      BY RecordTypes
    <3> HIDE DEF x, n
    <3>2. (Count(n) - x) % COUNT_MOD = (n + 1 - x) % COUNT_MOD
      BY <2>1, <3>1, CountType
    <3> QED
      BY <1>2, <3>2 DEF n
  <2>3. /\ q.release_count - q.completion_count - q.release_pending
               - q.activation_active = q.release_count - x
        /\ r.release_count - r.completion_count - r.release_pending
               - r.activation_active = r.release_count + 1 - x
    BY <1>2, <2>1
  <2> QED
    BY <2>2, <2>3 DEF Balance
<1>7. RecordStep(r, q, p)
  BY <1>2, <1>3, <1>6 DEF RecordStep
<1> QED
  BY <1>2, <1>5, <1>7 DEF q

LEMMA CompleteRecord ==
    ASSUME NEW r \in JRT_TaskBenchmarkRecord, NEW p \in BOOLEAN,
           RecordOK(r, "RUNNING", p), NEW state \in Off,
           benchmark_cycle_counter_available = 1
    PROVE  LET q == task_benchmark_complete(r)
           IN  /\ q \in JRT_TaskBenchmarkRecord
               /\ RecordOK(q, state, p)
               /\ RecordStep(r, q, p)
<1> DEFINE q == task_benchmark_complete(r)
<1>1. Count(r.completion_count) \in 0 .. COUNT_MOD - 1
  BY RecordTypes, CountType
<1>2. r.release_pending = 0 \/ p
  BY DEF RecordOK
<1>3. CASE r.activation_active = 0
  <2>1. q = r
    BY <1>3 DEF task_benchmark_complete
  <2>2. RecordOK(r, state, p) /\ RecordStep(r, r, p)
    BY <1>3 DEF RecordOK, RecordStep
  <2> QED
    BY <2>1, <2>2
<1>4. CASE r.activation_active # 0
  <2>1. r.activation_active = 1
    BY <1>4, RecordTypes
  <2>2. /\ q \in JRT_TaskBenchmarkRecord
        /\ q.release_count = r.release_count
        /\ q.completion_count = Count(r.completion_count)
        /\ q.release_cycle = r.release_cycle
        /\ q.release_pending = r.release_pending
        /\ q.activation_active = 0
        /\ q.activation_start_cycle = r.activation_start_cycle
    BY <1>1, <1>4 DEF task_benchmark_complete, JRT_TaskBenchmarkRecord
  <2> HIDE DEF q
  <2>3. RecordOK(q, state, p)
    BY <1>2, <2>2 DEF RecordOK
  <2>4. Balance(q) = Balance(r)
    <3> DEFINE n == r.completion_count
               y == r.release_count - r.release_pending
    <3>1. /\ n \in 0 .. COUNT_MOD - 1 /\ n \in Int /\ Count(n) \in Int
          /\ r.release_count \in Int /\ r.release_pending \in Int
          /\ y \in Int /\ COUNT_MOD \in Nat \ {0}
      BY <1>1, RecordTypes, BenchmarkAssumption
    <3>2. (y - Count(n)) % COUNT_MOD = (y - (n + 1)) % COUNT_MOD
      <4> HIDE DEF n, y
      <4> QED
        BY <3>1, CountType
    <3>3. /\ q.release_count - q.completion_count - q.release_pending
                 - q.activation_active = y - Count(n)
          /\ r.release_count - r.completion_count - r.release_pending
                 - r.activation_active = y - (n + 1)
      BY <2>1, <2>2, <3>1
    <3> QED
      BY <3>2, <3>3 DEF Balance
  <2>5. RecordStep(r, q, p)
    BY <2>1, <2>2, <2>4 DEF RecordStep, RecordOK
  <2> QED
    BY <2>2, <2>3, <2>5 DEF q
<1> QED
  BY <1>3, <1>4

LEMMA StartRecord ==
    ASSUME NEW r \in JRT_TaskBenchmarkRecord, NEW p \in BOOLEAN,
           NEW state \in {"READY", "RUNNING"}, RecordOK(r, state, p),
           benchmark_cycle_counter_available = 1
    PROVE  LET q == task_benchmark_start(r)
           IN  /\ q \in JRT_TaskBenchmarkRecord
               /\ RecordOK(q, "RUNNING", p /\ ~Measures(r))
               /\ RecordStep(r, q, p)
<1> DEFINE q == task_benchmark_start(r)
<1>1. CASE ~Measures(r)
  <2>1. q = r
    BY <1>1 DEF task_benchmark_start
  <2>2. r.release_pending = 1 => p
    BY <1>1, RecordTypes DEF Measures, RecordOK
  <2>3. RecordOK(r, "RUNNING", p)
    BY <2>2, RecordTypes DEF RecordOK
  <2>4. RecordStep(r, r, p)
    BY DEF RecordStep
  <2>5. (p /\ ~Measures(r)) = p
    BY <1>1
  <2> QED
    BY <2>1, <2>3, <2>4, <2>5
<1>2. CASE Measures(r)
  <2>1. r.release_pending = 1 /\ r.activation_active = 0
    BY <1>2 DEF Measures
  <2>2. /\ q \in JRT_TaskBenchmarkRecord
        /\ q.release_count = r.release_count
        /\ q.completion_count = r.completion_count
        /\ q.release_pending = 0
        /\ q.activation_active = 1
        /\ q.activation_start_cycle = "fresh"
    BY <1>2 DEF task_benchmark_start, JRT_TaskBenchmarkRecord, Stamp
  <2> HIDE DEF q
  <2>3. RecordOK(q, "RUNNING", p /\ ~Measures(r))
    BY <2>2 DEF RecordOK
  <2>4. Balance(q) = Balance(r)
    <3>1. r.release_count \in Int /\ r.completion_count \in Int
      BY RecordTypes
    <3>2. q.release_count - q.completion_count - q.release_pending
              - q.activation_active =
          r.release_count - r.completion_count - r.release_pending
              - r.activation_active
      BY <2>1, <2>2, <3>1
    <3> QED
      BY <3>2 DEF Balance
  <2>5. RecordStep(r, q, p)
    BY <2>1, <2>2, <2>4 DEF RecordStep, RecordOK
  <2> QED
    BY <2>2, <2>3, <2>5 DEF q
<1> QED
  BY <1>1, <1>2

LEMMA CoalescedRecord ==
    ASSUME NEW r \in JRT_TaskBenchmarkRecord, NEW p \in BOOLEAN, NEW state,
           RecordOK(r, state, p)
    PROVE  LET q == task_benchmark_coalesced(r)
           IN  /\ q \in JRT_TaskBenchmarkRecord
               /\ RecordOK(q, state, p)
               /\ RecordStep(r, q, p)
<1> DEFINE q == task_benchmark_coalesced(r)
<1>1. Count(r.coalesced_count) \in 0 .. COUNT_MOD - 1
  BY RecordTypes, CountType
<1>2. /\ q \in JRT_TaskBenchmarkRecord
      /\ q.release_count = r.release_count
      /\ q.completion_count = r.completion_count
      /\ q.release_cycle = r.release_cycle
      /\ q.release_pending = r.release_pending
      /\ q.activation_active = r.activation_active
      /\ q.activation_start_cycle = r.activation_start_cycle
  BY <1>1 DEF task_benchmark_coalesced, JRT_TaskBenchmarkRecord
<1> HIDE DEF q
<1>3. RecordOK(q, state, p)
  BY <1>2 DEF RecordOK
<1>4. Balance(q) = Balance(r)
  BY <1>2 DEF Balance
<1>5. RecordStep(r, q, p)
  BY <1>2, <1>4, RecordTypes DEF RecordStep
<1> QED
  BY <1>2, <1>3, <1>5 DEF q

LEMMA ResetRecordOK ==
    ASSUME NEW r \in JRT_TaskBenchmarkRecord, NEW p \in BOOLEAN, NEW state,
           RecordOK(r, state, p)
    PROVE  LET q == ResetRecord(r)
           IN  /\ q \in JRT_TaskBenchmarkRecord
               /\ RecordOK(q, state, p)
               /\ q.release_pending = r.release_pending
               /\ q.activation_active = r.activation_active
<1> DEFINE q == ResetRecord(r)
<1>1. /\ Rebased(r.release_cycle, r.release_pending) \in Stamp
      /\ Rebased(r.activation_start_cycle, r.activation_active) \in Stamp
      /\ r.release_pending = 1 =>
             Rebased(r.release_cycle, r.release_pending) = "fresh"
      /\ r.activation_active = 1 =>
             Rebased(r.activation_start_cycle, r.activation_active) = "fresh"
  BY RecordTypes DEF Rebased, Stamp
<1>2. 0 \in 0 .. COUNT_MOD - 1
  BY BenchmarkAssumption
<1>3. /\ q \in JRT_TaskBenchmarkRecord
      /\ q.release_cycle = Rebased(r.release_cycle, r.release_pending)
      /\ q.activation_start_cycle =
             Rebased(r.activation_start_cycle, r.activation_active)
      /\ q.release_pending = r.release_pending
      /\ q.activation_active = r.activation_active
  BY <1>1, <1>2 DEF ResetRecord, JRT_TaskBenchmarkRecord
<1> HIDE DEF q
<1>4. RecordOK(q, state, p)
  BY <1>1, <1>3 DEF RecordOK
<1> QED
  BY <1>3, <1>4 DEF q
(* What the steps with Hooks do to the state of a task.                    *)
Moves(s, s1) ==
    \/ s1 = s
    \/ s = "RUNNING" /\ s1 \in Off \cup {"READY"}
    \/ s = "READY" /\ s1 = "SUSPENDED"
    \/ s \in Off /\ s1 = "READY"

LEMMA HookRecord ==
    ASSUME NEW r \in JRT_TaskBenchmarkRecord, NEW p \in BOOLEAN,
           NEW s, NEW s1, RecordOK(r, s, p), Moves(s, s1), NEW q,
           q = IF benchmark_cycle_counter_available = 0 THEN r
               ELSE CASE s = "RUNNING" /\ s1 \in Off ->
                             task_benchmark_complete(r)
                      [] s \in Off /\ s1 = "READY" ->
                             task_benchmark_release(r, FALSE)
                      [] OTHER -> r
    PROVE  /\ q \in JRT_TaskBenchmarkRecord
           /\ RecordOK(q, s1, p \/ (s = "READY" /\ s1 = "SUSPENDED"))
           /\ RecordStep(r, q, p)
<1>1. benchmark_cycle_counter_available \in {0, 1}
  BY BenchmarkAssumption
<1>2. CASE benchmark_cycle_counter_available = 0
  <2>1. q = r /\ r.activation_active = 0 /\ r.release_pending = 0
    BY <1>2 DEF RecordOK
  <2>2. \A x : RecordOK(r, s1, x)
    BY <2>1 DEF RecordOK
  <2>3. RecordStep(r, r, p)
    BY DEF RecordStep
  <2> QED
    BY <2>1, <2>2, <2>3
<1>3. CASE /\ benchmark_cycle_counter_available = 1
           /\ s = "RUNNING" /\ s1 \in Off
  <2>1. q = task_benchmark_complete(r)
    BY <1>3 DEF Off
  <2>2. (p \/ (s = "READY" /\ s1 = "SUSPENDED")) = p
    BY <1>3
  <2> QED
    BY <1>3, <2>1, <2>2, CompleteRecord
<1>4. CASE /\ benchmark_cycle_counter_available = 1
           /\ s \in Off /\ s1 = "READY"
  <2>1. q = task_benchmark_release(r, FALSE)
    BY <1>4 DEF Off
  <2>2. (p \/ (s = "READY" /\ s1 = "SUSPENDED")) = p
    BY <1>4
  <2> QED
    BY <1>4, <2>1, <2>2, ReleaseRecord
<1>5. CASE /\ benchmark_cycle_counter_available = 1
           /\ ~(s = "RUNNING" /\ s1 \in Off) /\ ~(s \in Off /\ s1 = "READY")
  <2>1. q = r
    BY <1>5
  <2>2. \/ s1 = s
        \/ s = "RUNNING" /\ s1 = "READY"
        \/ s = "READY" /\ s1 = "SUSPENDED"
    BY <1>5 DEF Moves
  <2>3. RecordOK(r, s1, p \/ (s = "READY" /\ s1 = "SUSPENDED"))
    BY <1>5, <2>2 DEF RecordOK
  <2>4. RecordStep(r, r, p)
    BY DEF RecordStep
  <2> QED
    BY <2>1, <2>3, <2>4
<1> QED
  BY <1>1, <1>2, <1>3, <1>4, <1>5

(* What a step does to the records, beside the invariant.                  *)
RecordsStep ==
    \A t \in Watched : RecordStep(record[t], record'[t], parked[t])

LEMMA WatchedTypes ==
    ASSUME BenchmarkInv, NEW t \in Watched
    PROVE  /\ t \in Task /\ record[t] \in JRT_TaskBenchmarkRecord
           /\ parked[t] \in BOOLEAN /\ tasks[t] \in TCB
           /\ RecordOK(record[t], tasks[t].state, parked[t])
BY BenchmarkAssumption
   DEF BenchmarkInv, BenchmarkTypeOK, TypeOK, TaskTypeOK

(* The records of a step are type-correct and follow their tasks.          *)
LEMMA RecordsFollow ==
    ASSUME NoteInv',
           \A t \in Watched :
              /\ record'[t] \in JRT_TaskBenchmarkRecord
              /\ parked'[t] \in BOOLEAN
              /\ RecordOK(record'[t], tasks'[t].state, parked'[t]),
           record' = [t \in Watched |-> record'[t]],
           parked' = [t \in Watched |-> parked'[t]]
    PROVE  BenchmarkInv'
<1>1. TypeOK'
  BY DEF NoteInv, NoLostNotification
<1>2. /\ record' \in [Watched -> JRT_TaskBenchmarkRecord]
      /\ parked' \in [Watched -> BOOLEAN]
  OBVIOUS
<1> QED
  BY <1>1, <1>2 DEF BenchmarkInv, BenchmarkTypeOK

LEMMA CountedRecords ==
    ASSUME NEW ACTION R, Counted(R), R = [t \in Watched |-> R[t]],
           record = [t \in Watched |-> record[t]]
    PROVE  record' = [t \in Watched |-> record'[t]]
<1>1. CASE benchmark_cycle_counter_available = 0
  BY <1>1 DEF Counted
<1>2. CASE benchmark_cycle_counter_available # 0
  BY <1>2 DEF Counted
<1> QED
  BY <1>1, <1>2

LEMMA HooksStep ==
    ASSUME BenchmarkInv, NoteInv', Hooks,
           \A t \in Task : Moves(tasks[t].state, tasks'[t].state)
    PROVE  BenchmarkInv' /\ RecordsStep
<1>1. record = [t \in Watched |-> record[t]]
  BY DEF BenchmarkInv, BenchmarkTypeOK
<1>2. record' = [t \in Watched |-> record'[t]]
  <2> DEFINE R == [t \in Watched |->
                     CASE Completes(t) -> task_benchmark_complete(record[t])
                       [] Releases(t) ->
                              task_benchmark_release(record[t], FALSE)
                       [] OTHER -> record[t]]
  <2>1. R = [t \in Watched |-> R[t]]
    OBVIOUS
  <2>2. Counted(R)
    BY DEF Hooks
  <2> HIDE DEF R
  <2> QED
    BY <1>1, <2>1, <2>2, CountedRecords
<1>3. parked' = [t \in Watched |-> parked[t] \/ Park(t)]
  BY DEF Hooks
<1>4. ASSUME NEW t \in Watched
      PROVE  /\ record'[t] \in JRT_TaskBenchmarkRecord
             /\ parked'[t] \in BOOLEAN
             /\ RecordOK(record'[t], tasks'[t].state, parked'[t])
             /\ RecordStep(record[t], record'[t], parked[t])
  <2> DEFINE r == record[t]
             s == tasks[t].state
             s1 == tasks'[t].state
  <2>1. record'[t] =
            IF benchmark_cycle_counter_available = 0 THEN r
            ELSE CASE s = "RUNNING" /\ s1 \in Off -> task_benchmark_complete(r)
                   [] s \in Off /\ s1 = "READY" ->
                          task_benchmark_release(r, FALSE)
                   [] OTHER -> r
    BY <1>1 DEF Hooks, Counted, Completes, Releases
  <2>2. parked'[t] = (parked[t] \/ (s = "READY" /\ s1 = "SUSPENDED"))
    BY <1>3 DEF Park
  <2>3. /\ r \in JRT_TaskBenchmarkRecord /\ parked[t] \in BOOLEAN
        /\ RecordOK(r, s, parked[t]) /\ Moves(s, s1)
    BY WatchedTypes
  <2>4. parked'[t] \in BOOLEAN
    BY <2>2
  <2> HIDE DEF r, s, s1
  <2>5. /\ record'[t] \in JRT_TaskBenchmarkRecord
        /\ RecordOK(record'[t], s1,
                    parked[t] \/ (s = "READY" /\ s1 = "SUSPENDED"))
        /\ RecordStep(r, record'[t], parked[t])
    BY <2>1, <2>3, HookRecord
  <2> QED
    BY <2>2, <2>4, <2>5 DEF r, s1
<1>5. parked' = [t \in Watched |-> parked'[t]]
  BY <1>3
<1> QED
  BY <1>2, <1>4, <1>5, RecordsFollow DEF RecordsStep
(* pendsv_switch.                                                          *)
LEMMA PendSVMoves ==
    ASSUME TaskInv, PendSV, NEW t \in Task
    PROVE  IF t = current'
           THEN /\ tasks[t].state \in {"READY", "RUNNING"}
                /\ tasks'[t].state = "RUNNING"
           ELSE \/ tasks'[t].state = tasks[t].state
                \/ tasks[t].state = "RUNNING" /\ tasks'[t].state = "READY"
<1> DEFINE T == Preempted(tasks, current)
           next == next_index(T, current)
<1>1. current \in Task /\ tasks \in [Task -> TCB]
  BY DEF TaskInv, TaskTypeOK
<1>2. /\ T \in [Task -> TCB]
      /\ \A i \in Task :
            \/ T[i].state = tasks[i].state
            \/ tasks[i].state = "RUNNING" /\ T[i].state = "READY"
  BY <1>1 DEF Preempted, TCB, State
<1>3. T[idle_index].state = "READY"
  BY <1>1, TaskIndices
     DEF Preempted, TaskInv, IdleRunnable, ExecutingIsRunning, TCB
<1>4. next \in Task /\ T[next].state = "READY"
  BY <1>1, <1>2, <1>3, BestExists, NextIndex, TaskIndices DEF Best
<1>5. current' = next /\ tasks' = [T EXCEPT ![next].state = "RUNNING"]
  BY DEF PendSV
<1> HIDE DEF T, next
<1>6. /\ tasks'[next].state = "RUNNING"
      /\ \A i \in Task : i # next => tasks'[i] = T[i]
  BY <1>2, <1>4, <1>5 DEF TCB
<1> QED
  BY <1>2, <1>4, <1>5, <1>6

LEMMA StartStep ==
    ASSUME BenchmarkInv, NoteInv', PendSV, StartHook
    PROVE  BenchmarkInv' /\ RecordsStep
<1> DEFINE R == [t \in Watched |-> IF t = current'
                                   THEN task_benchmark_start(record[t])
                                   ELSE record[t]]
<1>1. record = [t \in Watched |-> record[t]] /\ R = [t \in Watched |-> R[t]]
  BY DEF BenchmarkInv, BenchmarkTypeOK
<1>2. Counted(R)
  BY DEF StartHook
<1>3. record' = [t \in Watched |-> record'[t]]
  <2> HIDE DEF R
  <2> QED
    BY <1>1, <1>2, CountedRecords
<1>4. parked' = [t \in Watched |->
                    parked[t] /\ ~(t = current' /\ Measures(record[t]))]
  BY DEF StartHook
<1>5. benchmark_cycle_counter_available \in {0, 1}
  BY BenchmarkAssumption
<1>6. ASSUME NEW t \in Watched
      PROVE  /\ record'[t] \in JRT_TaskBenchmarkRecord
             /\ parked'[t] \in BOOLEAN
             /\ RecordOK(record'[t], tasks'[t].state, parked'[t])
             /\ RecordStep(record[t], record'[t], parked[t])
  <2> DEFINE r == record[t]
             s == tasks[t].state
             s1 == tasks'[t].state
             p == parked[t]
  <2>1. /\ t \in Task /\ r \in JRT_TaskBenchmarkRecord /\ p \in BOOLEAN
        /\ RecordOK(r, s, p)
    BY WatchedTypes
  <2>2. parked'[t] = (p /\ ~(t = current' /\ Measures(r)))
    BY <1>4
  <2>3. IF t = current'
        THEN s \in {"READY", "RUNNING"} /\ s1 = "RUNNING"
        ELSE s1 = s \/ (s = "RUNNING" /\ s1 = "READY")
    BY <2>1, PendSVMoves DEF BenchmarkInv, NoteInv
  <2>4. record'[t] = IF benchmark_cycle_counter_available = 0 THEN r ELSE R[t]
    BY <1>2 DEF Counted
  <2>5. R[t] = IF t = current' THEN task_benchmark_start(r) ELSE r
    OBVIOUS
  <2> HIDE DEF R, r, s, s1, p
  <2>6. RecordStep(r, r, p)
    BY DEF RecordStep
  <2>7. CASE benchmark_cycle_counter_available = 0
    <3>1. record'[t] = r /\ r.activation_active = 0 /\ r.release_pending = 0
      BY <2>1, <2>4, <2>7 DEF RecordOK
    <3>2. parked'[t] \in BOOLEAN
      BY <2>2
    <3>3. RecordOK(r, s1, parked'[t])
      BY <3>1 DEF RecordOK
    <3> QED
      BY <2>1, <2>6, <3>1, <3>2, <3>3 DEF r, s1, p
  <2>8. CASE benchmark_cycle_counter_available = 1 /\ t = current'
    <3>1. record'[t] = task_benchmark_start(r)
      BY <2>4, <2>5, <2>8
    <3>2. parked'[t] = (p /\ ~Measures(r))
      BY <2>2, <2>8
    <3>3. /\ record'[t] \in JRT_TaskBenchmarkRecord
          /\ RecordOK(record'[t], "RUNNING", p /\ ~Measures(r))
          /\ RecordStep(r, record'[t], p)
      BY <2>1, <2>3, <2>8, <3>1, StartRecord
    <3>4. parked'[t] \in BOOLEAN
      BY <3>2
    <3> QED
      BY <2>3, <2>8, <3>2, <3>3, <3>4 DEF r, s1, p
  <2>9. CASE benchmark_cycle_counter_available = 1 /\ t # current'
    <3>1. record'[t] = r
      BY <2>4, <2>5, <2>9
    <3>2. parked'[t] = p
      BY <2>1, <2>2, <2>9
    <3>3. RecordOK(r, s1, p)
      BY <2>1, <2>3, <2>9 DEF RecordOK
    <3> QED
      BY <2>1, <2>6, <3>1, <3>2, <3>3 DEF r, s1, p
  <2> QED
    BY <1>5, <2>7, <2>8, <2>9
<1>7. parked' = [t \in Watched |-> parked'[t]]
  BY <1>4
<1> HIDE DEF R
<1> QED
  BY <1>3, <1>6, <1>7, RecordsFollow DEF RecordsStep

(* task_notify_common.                                                     *)
LEMMA NotifyStep ==
    ASSUME BenchmarkInv, NoteInv', NEW id, NEW value,
           Notified(id, value), NotifyHook(id, value)
    PROVE  BenchmarkInv' /\ RecordsStep
<1> DEFINE coalesced == value # 0 /\ notification_value[id] # 0
           R == [t \in Watched |->
                   CASE t = id /\ Releases(t) ->
                            task_benchmark_release(record[t], coalesced)
                     [] t = id /\ ~Releases(t) /\ coalesced ->
                            task_benchmark_coalesced(record[t])
                     [] OTHER -> record[t]]
<1>1. /\ record = [t \in Watched |-> record[t]]
      /\ parked = [t \in Watched |-> parked[t]]
      /\ R = [t \in Watched |-> R[t]]
  BY DEF BenchmarkInv, BenchmarkTypeOK
<1>2. Counted(R) /\ parked' = parked
  BY DEF NotifyHook
<1>3. record' = [t \in Watched |-> record'[t]]
  <2> HIDE DEF R
  <2> QED
    BY <1>1, <1>2, CountedRecords
<1>4. benchmark_cycle_counter_available \in {0, 1}
  BY BenchmarkAssumption
<1>5. ASSUME NEW t \in Task
      PROVE  \/ tasks'[t].state = tasks[t].state
             \/ t = id /\ tasks[t].state \in Off /\ tasks'[t].state = "READY"
  <2>1. tasks \in [Task -> TCB]
    BY DEF BenchmarkInv, BenchmarkTypeOK, TypeOK, TaskTypeOK
  <2> QED
    BY <2>1 DEF Notified, task_wait_end, TCB, Off
<1>6. ASSUME NEW t \in Watched
      PROVE  /\ record'[t] \in JRT_TaskBenchmarkRecord
             /\ parked'[t] \in BOOLEAN
             /\ RecordOK(record'[t], tasks'[t].state, parked'[t])
             /\ RecordStep(record[t], record'[t], parked[t])
  <2> DEFINE r == record[t]
             s == tasks[t].state
             s1 == tasks'[t].state
             p == parked[t]
  <2>1. /\ t \in Task /\ r \in JRT_TaskBenchmarkRecord /\ p \in BOOLEAN
        /\ RecordOK(r, s, p)
    BY WatchedTypes
  <2>2. parked'[t] = p
    BY <1>2
  <2>3. Releases(t) \/ s1 = s
    BY <1>5, <2>1 DEF Releases
  <2>4. record'[t] = IF benchmark_cycle_counter_available = 0 THEN r ELSE R[t]
    BY <1>2 DEF Counted
  <2>5. Releases(t) => s \in Off /\ s1 = "READY" /\ s1 # s
    BY DEF Releases, Off
  <2>6. Releases(t) => t = id
    BY <1>5, <2>1, <2>5
  <2>7. RecordStep(r, r, p)
    BY DEF RecordStep
  <2>8. CASE benchmark_cycle_counter_available = 0
    <3>1. record'[t] = r /\ r.activation_active = 0 /\ r.release_pending = 0
      BY <2>1, <2>4, <2>8 DEF RecordOK
    <3>2. RecordOK(r, s1, p)
      BY <3>1 DEF RecordOK
    <3> QED
      BY <2>1, <2>2, <2>7, <3>1, <3>2
  <2>9. CASE benchmark_cycle_counter_available = 1 /\ Releases(t)
    <3>1. record'[t] = task_benchmark_release(r, coalesced)
      BY <2>4, <2>6, <2>9
    <3>2. coalesced \in BOOLEAN
      OBVIOUS
    <3> HIDE DEF coalesced, R, r, s, s1, p
    <3> QED
      BY <2>1, <2>2, <2>5, <2>9, <3>1, <3>2, ReleaseRecord DEF r, s1, p
  <2>10. CASE /\ benchmark_cycle_counter_available = 1
              /\ ~Releases(t) /\ t = id /\ coalesced
    <3>1. record'[t] = task_benchmark_coalesced(r)
      BY <2>4, <2>10
    <3>2. s1 = s
      BY <2>3, <2>10
    <3> HIDE DEF coalesced, R, r, s, s1, p
    <3> QED
      BY <2>1, <2>2, <3>1, <3>2, CoalescedRecord DEF r, s1, p
  <2>11. CASE /\ benchmark_cycle_counter_available = 1
              /\ ~Releases(t) /\ ~(t = id /\ coalesced)
    <3>1. record'[t] = r /\ s1 = s
      BY <2>3, <2>4, <2>11
    <3> QED
      BY <2>1, <2>2, <2>7, <3>1
  <2> QED
    BY <1>4, <2>8, <2>9, <2>10, <2>11
<1>7. parked' = [t \in Watched |-> parked'[t]]
  BY <1>1, <1>2
<1> HIDE DEF R, coalesced
<1> QED
  BY <1>3, <1>6, <1>7, RecordsFollow DEF RecordsStep

(* JRT_TaskBenchmarkReset keeps what is pending and what is active.        *)
LEMMA ResetStep ==
    ASSUME BenchmarkInv, NEW t \in ApplicationTask, BenchmarkReset(t)
    PROVE  /\ BenchmarkInv'
           /\ \A u \in Watched :
                 /\ record'[u].release_pending = record[u].release_pending
                 /\ record'[u].activation_active = record[u].activation_active
<1>1. /\ record' = [u \in Watched |-> IF u = idle_index THEN record[u]
                                      ELSE ResetRecord(record[u])]
      /\ parked' = parked /\ UNCHANGED vars
  BY DEF BenchmarkReset
<1>2. NoteInv'
  BY <1>1, NoteNext DEF BenchmarkInv
<1>3. parked = [u \in Watched |-> parked[u]]
  BY DEF BenchmarkInv, BenchmarkTypeOK
<1>4. ASSUME NEW u \in Watched
      PROVE  /\ record'[u] \in JRT_TaskBenchmarkRecord
             /\ parked'[u] \in BOOLEAN
             /\ RecordOK(record'[u], tasks'[u].state, parked'[u])
             /\ record'[u].release_pending = record[u].release_pending
             /\ record'[u].activation_active = record[u].activation_active
  <2>1. tasks' = tasks
    BY <1>1 DEF vars
  <2> QED
    BY <1>1, <2>1, WatchedTypes, ResetRecordOK
<1>5. /\ record' = [u \in Watched |-> record'[u]]
      /\ parked' = [u \in Watched |-> parked'[u]]
  BY <1>1, <1>3
<1> QED
  BY <1>2, <1>4, <1>5, RecordsFollow
LEMMA SysTickMoves ==
    ASSUME TaskInv, SysTick, NEW t \in Task
    PROVE  Moves(tasks[t].state, tasks'[t].state)
<1>1. tasks[t] \in TCB
  BY DEF TaskInv, TaskTypeOK
<1>2. tasks'[t] = tick_task(tasks[t], ticks')
  BY DEF SysTick, tick_tasks
<1>3. CASE tasks[t].state = "SLEEPING" /\ tasks[t].sleep_ticks > 0
  <2>1. tasks'[t] = tick_sleeper(tasks[t])
    BY <1>2, <1>3 DEF tick_task, WaitExpired
  <2> QED
    BY <1>1, <1>3, <2>1 DEF tick_sleeper, TCB, Moves, Off
<1>4. CASE WaitExpired(tasks[t], ticks')
  BY <1>1, <1>2, <1>4
     DEF tick_task, task_wait_end, WaitExpired, TCB, Moves, Off
<1>5. CASE /\ ~(tasks[t].state = "SLEEPING" /\ tasks[t].sleep_ticks > 0)
           /\ ~WaitExpired(tasks[t], ticks')
  BY <1>2, <1>5 DEF tick_task, Moves
<1> QED
  BY <1>3, <1>4, <1>5

LEMMA ServicesMoves ==
    ASSUME TaskInv, Services, NEW u \in Task
    PROVE  Moves(tasks[u].state, tasks'[u].state)
<1> SUFFICES ASSUME NEW t \in ApplicationTask,
                    \/ TaskYield(t)
                    \/ \E d \in Delay : TaskDelay(t, d)
                    \/ \E id \in SuspendTarget :
                          TaskSuspend(t, id) \/ TaskResume(t, id)
             PROVE  Moves(tasks[u].state, tasks'[u].state)
  BY DEF Services
<1>1. t \in Task /\ tasks \in [Task -> TCB]
  BY TaskIndices DEF TaskInv, TaskTypeOK
<1>2. InApp(t) => tasks[t].state = "RUNNING"
  BY <1>1, ThreadRuns DEF InApp
<1>3. CASE TaskYield(t)
  BY <1>3 DEF TaskYield, Svc, Moves
<1>4. ASSUME NEW d \in Delay, TaskDelay(t, d)
      PROVE  Moves(tasks[u].state, tasks'[u].state)
  BY <1>1, <1>2, <1>4 DEF TaskDelay, Svc, sleep_current, Moves, Off, TCB
<1>5. ASSUME NEW id \in SuspendTarget, TaskSuspend(t, id)
      PROVE  Moves(tasks[u].state, tasks'[u].state)
  <2> DEFINE i == resolve(id, t)
  <2>1. tasks' = kernel_task_suspend(tasks, t, i)
    BY <1>5 DEF TaskSuspend, Svc
  <2> HIDE DEF i
  <2> QED
    BY <1>1, <2>1, TaskIndices DEF kernel_task_suspend, Moves, Off, TCB
<1>6. ASSUME NEW id \in SuspendTarget, TaskResume(t, id)
      PROVE  Moves(tasks[u].state, tasks'[u].state)
  BY <1>1, <1>6, TaskIndices
     DEF TaskResume, Svc, kernel_task_resume, Moves, Off, TCB
<1> QED
  BY <1>3, <1>4, <1>5, <1>6

LEMMA TakeMoves ==
    ASSUME TaskInv, NEW t \in ApplicationTask, NEW timeout, Take(t, timeout),
           NEW u \in Task
    PROVE  Moves(tasks[u].state, tasks'[u].state)
<1>1. t \in Task /\ tasks \in [Task -> TCB]
  BY TaskIndices DEF TaskInv, TaskTypeOK
<1>2. InApp(t) => tasks[t].state = "RUNNING"
  BY <1>1, ThreadRuns DEF InApp
<1>3. CASE TakeNow(t)
  BY <1>3 DEF TakeNow, taskVars, Moves
<1>4. CASE TakeBlock(t, timeout)
  BY <1>1, <1>2, <1>4
     DEF TakeBlock, BlockNow, task_wait_begin, task_wait_begin_until, TCB,
         Moves, Off
<1> QED
  BY <1>3, <1>4 DEF Take

LEMMA BenchmarkInitInv == BenchmarkInit => BenchmarkInv
<1> SUFFICES ASSUME BenchmarkInit
             PROVE  BenchmarkInv
  OBVIOUS
<1>1. NoteInv
  BY NoteInit DEF BenchmarkInit
<1>2. 0 \in 0 .. COUNT_MOD - 1
  BY BenchmarkAssumption
<1>3. clear_record \in JRT_TaskBenchmarkRecord
  BY <1>2 DEF clear_record, JRT_TaskBenchmarkRecord, Stamp
<1>4. BenchmarkTypeOK
  BY <1>1, <1>3 DEF NoteInv, NoLostNotification, BenchmarkTypeOK, BenchmarkInit
<1>5. \A t \in Watched : RecordOK(record[t], tasks[t].state, parked[t])
  BY DEF BenchmarkInit, RecordOK, clear_record
<1> QED
  BY <1>1, <1>4, <1>5 DEF BenchmarkInv

LEMMA BenchmarkStep ==
    ASSUME BenchmarkInv, [BenchmarkNext]_allVars
    PROVE  /\ BenchmarkInv'
           /\ \/ RecordsStep
              \/ \E u \in ApplicationTask : BenchmarkReset(u)
<1>1. NoteInv /\ TaskInv
  BY DEF BenchmarkInv, NoteInv
<1>2. [Next]_vars
  BY DEF BenchmarkNext, Next, allVars, BenchmarkReset
<1>3. NoteInv'
  BY <1>1, <1>2, NoteNext
<1>4. CASE UNCHANGED allVars
  <2>1. record' = record /\ parked' = parked /\ tasks' = tasks
    BY <1>4 DEF allVars, vars
  <2>2. BenchmarkTypeOK'
    BY <1>3, <2>1 DEF BenchmarkInv, BenchmarkTypeOK, NoteInv,
                      NoLostNotification
  <2>3. RecordsStep
    BY <2>1 DEF RecordsStep, RecordStep
  <2> QED
    BY <1>3, <2>1, <2>2, <2>3 DEF BenchmarkInv
<1>5. CASE PendSV /\ StartHook
  BY <1>3, <1>5, StartStep
<1>6. CASE ClockTick /\ Hooks
  BY <1>1, <1>3, <1>6, SysTickMoves, HooksStep DEF ClockTick
<1>7. CASE Services /\ Hooks
  BY <1>1, <1>3, <1>7, ServicesMoves, HooksStep
<1>8. ASSUME NEW t \in ApplicationTask, NEW timeout \in Timeout,
             Take(t, timeout), Hooks
      PROVE  BenchmarkInv' /\ RecordsStep
  BY <1>1, <1>3, <1>8, TakeMoves, HooksStep
<1>9. ASSUME NEW t \in ApplicationTask, Continue(t), Hooks
      PROVE  BenchmarkInv' /\ RecordsStep
  <2>1. \A u \in Task : Moves(tasks[u].state, tasks'[u].state)
    BY <1>9 DEF Continue, ArchYield, TakeWoken, Moves
  <2> QED
    BY <1>3, <1>9, <2>1, HooksStep
<1>10. ASSUME NEW t \in ApplicationTask, BenchmarkReset(t)
       PROVE  BenchmarkInv'
  BY <1>10, ResetStep
<1>11. ASSUME NEW id \in NotifyTarget, NEW v \in NotifyValue,
              Notify(id, v), NotifyHook(id, v)
       PROVE  BenchmarkInv' /\ RecordsStep
  <2>1. Notified(id, v)
    BY <1>11 DEF Notify, TaskNotify, TaskNotifyFromISR
  <2> QED
    BY <1>3, <1>11, <2>1, NotifyStep
<1> QED
  BY <1>4, <1>5, <1>6, <1>7, <1>8, <1>9, <1>10, <1>11 DEF BenchmarkNext

LEMMA BenchmarkInvariant == BenchmarkSpec => []BenchmarkInv
<1>1. BenchmarkInv /\ [BenchmarkNext]_allVars => BenchmarkInv'
  BY BenchmarkStep
<1> QED
  BY <1>1, BenchmarkInitInv, PTL DEF BenchmarkSpec

-----------------------------------------------------------------------------
(***************************************************************************)
(* task_benchmark_complete closes every activation: a task that waits or   *)
(* sleeps has none open, and neither it nor a task that executes has a     *)
(* release that was not measured, unless it was suspended while READY.     *)
(* For every set of tasks and every range of the counters.                 *)
(***************************************************************************)
THEOREM ActivationsAreClosed == BenchmarkSpec => []ActivationsClosed
<1>1. BenchmarkInv => ActivationsClosed
  BY DEF BenchmarkInv, RecordOK, ActivationsClosed
<1> QED
  BY <1>1, BenchmarkInvariant, PTL

(***************************************************************************)
(* The counters of task_benchmark_release and task_benchmark_complete stay *)
(* in balance modulo their range, whatever interrupts, preempts or times   *)
(* out: only a reset, or a suspend of a READY task, changes the account.   *)
(***************************************************************************)
THEOREM BalanceIsKept == BenchmarkSpec => BalanceKept
<1> DEFINE Kept == \A t \in Watched :
               \/ Balance(record'[t]) = Balance(record[t])
               \/ parked[t]
               \/ \E u \in ApplicationTask : BenchmarkReset(u)
<1>1. ASSUME BenchmarkInv, [BenchmarkNext]_allVars
      PROVE  [Kept]_allVars
  BY <1>1, BenchmarkStep DEF RecordsStep, RecordStep
<1>2. BenchmarkSpec => [][Kept]_allVars
  BY <1>1, BenchmarkInvariant, PTL DEF BenchmarkSpec
<1> QED
  BY <1>2 DEF BalanceKept

(* A record's latency and duration are measured from fresh stamps.         *)
Fresh(t) ==
    LET r == record[t]
    IN  /\ (r.release_pending = 1 /\ record'[t].release_pending = 0) =>
               r.release_cycle = "fresh" \/ parked[t]
        /\ (r.activation_active = 1 /\ record'[t].activation_active = 0) =>
               r.activation_start_cycle = "fresh"

(***************************************************************************)
(* task_benchmark_start and task_benchmark_complete measure from the       *)
(* latest release and the start of this activation, or from a later reset, *)
(* never from a stamp that an earlier event left behind.                   *)
(***************************************************************************)
THEOREM MeasuresAreFromFreshStamps == BenchmarkSpec => MeasuresAreFresh
<1>1. ASSUME BenchmarkInv, [BenchmarkNext]_allVars
      PROVE  [\A t \in Watched : Fresh(t)]_allVars
  <2>1. CASE RecordsStep
    BY <2>1 DEF RecordsStep, RecordStep, Fresh
  <2>2. ASSUME NEW u \in ApplicationTask, BenchmarkReset(u)
        PROVE  \A t \in Watched : Fresh(t)
    BY <1>1, <2>2, ResetStep DEF Fresh
  <2> QED
    BY <1>1, <2>1, <2>2, BenchmarkStep
<1>2. BenchmarkSpec => [][\A t \in Watched : Fresh(t)]_allVars
  BY <1>1, BenchmarkInvariant, PTL DEF BenchmarkSpec
<1> QED
  BY <1>2 DEF MeasuresAreFresh, Fresh
=============================================================================
