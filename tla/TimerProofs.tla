---------------------------- MODULE TimerProofs -----------------------------
(***************************************************************************)
(* Timers expire exactly on time and the timer service sleeps over no      *)
(* expiration, for every number of tasks and timers, every delay and       *)
(* period the tick comparison can tell apart, and every width of the       *)
(* counters.                                                               *)
(***************************************************************************)
EXTENDS Timer, TaskProofs, SequenceTheorems

(* Ticks from arming to expiry of a timer with this reload value.          *)
SpanOf(reload) == IF reload = 0 THEN 1 ELSE reload

(* The fields r of a timer at tick now, a ticks after it was armed or last *)
(* expired: only a linked timer has ever been armed, a periodic timer      *)
(* reloads its period, and the deadline of an active timer is as far away  *)
(* as the rest of its delay.                                               *)
TimerOK(r, a, linked, now) ==
    /\ ~linked => ~r.active /\ r.expirations = 0
    /\ r.periodic <=> r.period # 0
    /\ r.periodic => r.period = r.reload_ticks
    /\ 2 * r.reload_ticks <= TICK_MOD
    /\ r.active => /\ a < SpanOf(r.reload_ticks)
                   /\ TickSub(r.deadline, now) = r.reload_ticks - a

TimersOK ==
    \A x \in JRT_Timer :
        TimerOK(timer[x], age[x], Contains(timer_list, x), ticks)

(* The list has no cycle.                                                  *)
ListOK ==
    \A i, j \in DOMAIN timer_list : timer_list[i] = timer_list[j] => i = j

(* The service task blocks on nothing but its own wait.                    *)
ServiceKind ==
    tasks[service].state = "BLOCKED" =>
        tasks[service].wait_kind = "TIMER_SERVICE"

TimerInv ==
    TaskInv /\ TypeOK /\ ListOK /\ ServiceKind /\ ServiceSeesWork /\ TimersOK
-----------------------------------------------------------------------------
(* Arithmetic of deadlines.                                                *)

(* One tick brings a deadline one tick closer, and the signed comparison   *)
(* of the tick sees exactly the deadlines at most one tick away.           *)
LEMMA DeadlineTick ==
    ASSUME NEW now \in Tick, NEW deadline \in Tick,
           2 * TickSub(deadline, now) <= TICK_MOD
    PROVE  LET gap == TickSub(deadline, now)
               later == TickAdd(now, 1)
           IN  /\ Reached(later, deadline) <=> gap <= 1
               /\ gap >= 1 => TickSub(deadline, later) = gap - 1
               /\ gap = 1 => deadline = later
<1>1. /\ TICK_MOD \in Nat /\ TICK_MOD > 2
      /\ now \in Nat /\ now < TICK_MOD
      /\ deadline \in Nat /\ deadline < TICK_MOD
  BY TaskTableAssumption DEF Tick
<1>2. \A x \in Int : 0 <= x /\ x < TICK_MOD => x % TICK_MOD = x
  BY <1>1
<1>3. \A x \in Int : -TICK_MOD <= x /\ x < 0 => x % TICK_MOD = x + TICK_MOD
  BY <1>1
<1>4. TICK_MOD % TICK_MOD = 0
  BY <1>1
<1> DEFINE gap == TickSub(deadline, now)
           later == TickAdd(now, 1)
<1>5. gap = IF deadline >= now THEN deadline - now
                               ELSE deadline - now + TICK_MOD
  BY <1>1, <1>2, <1>3 DEF TickSub
<1>6. later = IF now + 1 = TICK_MOD THEN 0 ELSE now + 1
  BY <1>1, <1>2, <1>4 DEF TickAdd
<1>7. later \in Nat /\ later < TICK_MOD /\ gap \in Nat
  BY <1>1, <1>5, <1>6
<1> HIDE DEF gap, later
<1>8. TickSub(deadline, later) = IF deadline >= later THEN deadline - later
                                 ELSE deadline - later + TICK_MOD
  BY <1>1, <1>2, <1>3, <1>7 DEF TickSub
<1>9. TickSub(later, deadline) = IF later >= deadline THEN later - deadline
                                 ELSE later - deadline + TICK_MOD
  BY <1>1, <1>2, <1>3, <1>7 DEF TickSub
<1>10. 2 * gap <= TICK_MOD
  BY DEF gap
<1>11. Reached(later, deadline) <=> gap <= 1
  BY <1>1, <1>5, <1>6, <1>7, <1>9, <1>10 DEF Reached
<1>12. gap >= 1 => TickSub(deadline, later) = gap - 1
  BY <1>1, <1>5, <1>6, <1>7, <1>8
<1>13. gap = 1 => deadline = later
  BY <1>1, <1>5, <1>6, <1>7
<1> QED
  BY <1>11, <1>12, <1>13 DEF gap, later

LEMMA TickAddType ==
    ASSUME NEW a \in Tick, NEW b \in Tick
    PROVE  TickAdd(a, b) \in Tick
<1>1. a \in Int /\ b \in Int
  BY TickConstants
<1> QED
  BY <1>1, TickTypes

(* What the tick does to a timer.                                          *)
ExpiredTimer(r) ==
    [r EXCEPT !.expirations = (@ + 1) % EXPIRE_MOD,
              !.deadline = IF r.periodic THEN TickAdd(@, r.period) ELSE @,
              !.active = r.periodic]

LEMMA ExpiredIs ==
    ASSUME NEW x
    PROVE  Expired(x) = ExpiredTimer(timer[x])
BY DEF Expired, ExpiredTimer

LEMMA ExpiredType ==
    ASSUME NEW r \in TimerType
    PROVE  ExpiredTimer(r) \in TimerType
<1>1. (r.expirations + 1) % EXPIRE_MOD \in 0 .. EXPIRE_MOD - 1
  <2>1. r.expirations + 1 \in Nat /\ EXPIRE_MOD \in Nat /\ EXPIRE_MOD > 0
    BY TimerAssumption DEF TimerType
  <2> QED
    BY <2>1
<1>2. /\ TickAdd(r.deadline, r.period) \in Tick
      /\ r.deadline \in Tick /\ r.periodic \in BOOLEAN
  <2>1. r.deadline \in Tick /\ r.period \in Tick /\ r.periodic \in BOOLEAN
    BY DEF TimerType
  <2> QED
    BY <2>1, TickAddType
<1> QED
  BY <1>1, <1>2 DEF ExpiredTimer, TimerType

(* A linked active timer is due exactly at the last tick of its span, and  *)
(* its new deadline is a whole period away.                                *)
LEMMA TimerTick ==
    ASSUME NEW r \in TimerType, NEW a \in 0 .. TICK_MOD, NEW linked \in BOOLEAN,
           NEW now \in Tick, TimerOK(r, a, linked, now)
    PROVE  LET later == TickAdd(now, 1)
               due == linked /\ r.active /\ Reached(later, r.deadline)
           IN  /\ due => /\ a + 1 = SpanOf(r.reload_ticks)
                         /\ TimerOK(ExpiredTimer(r), 0, linked, later)
               /\ ~due => TimerOK(r, IF r.active /\ a < TICK_MOD THEN a + 1 ELSE a,
                                  linked, later)
<1> DEFINE later == TickAdd(now, 1)
           due == linked /\ r.active /\ Reached(later, r.deadline)
           e == ExpiredTimer(r)
           d == r.reload_ticks
           gap == TickSub(r.deadline, now)
<1>1. /\ d \in Nat /\ r.deadline \in Tick /\ a \in Nat /\ a <= TICK_MOD
      /\ TICK_MOD \in Nat /\ TICK_MOD > 2
      /\ r.period \in Tick /\ later \in Tick
  <2>1. /\ d \in Tick /\ r.deadline \in Tick /\ r.period \in Tick
    BY DEF TimerType
  <2>2. 1 \in Tick
    BY TaskTableAssumption DEF Tick
  <2>3. later \in Tick
    BY <2>2, TickAddType
  <2>4. TICK_MOD \in Nat /\ TICK_MOD > 2
    BY TaskTableAssumption
  <2>5. d \in Nat
    BY <2>1, TickConstants
  <2>6. a \in Nat /\ a <= TICK_MOD
    BY <2>4
  <2> QED
    BY <2>1, <2>3, <2>4, <2>5, <2>6
<1>2. /\ ~linked => ~r.active /\ r.expirations = 0
      /\ r.periodic <=> r.period # 0
      /\ r.periodic => r.period = d
      /\ 2 * d <= TICK_MOD
      /\ r.active => a < SpanOf(d) /\ gap = d - a
  BY DEF TimerOK
<1>3. ASSUME r.active
      PROVE  /\ gap \in Nat /\ a <= d
             /\ Reached(later, r.deadline) <=> gap <= 1
             /\ gap >= 1 => TickSub(r.deadline, later) = gap - 1
             /\ gap = 1 => r.deadline = later
  <2>1. gap \in Nat /\ a <= d /\ 2 * gap <= TICK_MOD
    BY <1>1, <1>2, <1>3 DEF SpanOf
  <2> QED
    BY <1>1, <2>1, DeadlineTick
<1> HIDE DEF gap, later
<1>4. CASE due
  <2>1. r.active /\ gap <= 1 /\ gap = d - a /\ a < SpanOf(d) /\ a <= d
    BY <1>2, <1>3, <1>4
  <2>2. a + 1 = SpanOf(d)
    BY <1>1, <1>3, <2>1 DEF SpanOf
  <2>3. /\ e.period = r.period /\ e.periodic = r.periodic
        /\ e.reload_ticks = d /\ e.active = r.periodic
        /\ e.deadline = IF r.periodic THEN TickAdd(r.deadline, r.period)
                                      ELSE r.deadline
    BY DEF ExpiredTimer, TimerType
  <2> HIDE DEF e
  <2>4. ASSUME r.periodic
        PROVE  0 < SpanOf(d) /\ TickSub(e.deadline, later) = d - 0
    <3>1. d = r.period /\ d # 0 /\ d \in Tick
      BY <1>1, <1>2, <2>4
    <3>2. gap = 1
      BY <1>1, <2>1, <2>2, <3>1 DEF SpanOf
    <3>3. e.deadline = TickAdd(later, d)
      BY <1>3, <2>1, <2>3, <2>4, <3>1, <3>2
    <3>4. TickSub(e.deadline, later) = d
      BY <1>1, <3>1, <3>3, TimeoutDistance
    <3> QED
      BY <1>1, <3>1, <3>4 DEF SpanOf
  <2>5. TimerOK(e, 0, linked, later)
    BY <1>2, <1>4, <2>3, <2>4 DEF TimerOK
  <2> QED
    BY <1>4, <2>2, <2>5 DEF e, later
<1>5. CASE ~due
  <2> DEFINE b == IF r.active /\ a < TICK_MOD THEN a + 1 ELSE a
  <2>1. ASSUME r.active
        PROVE  b < SpanOf(d) /\ TickSub(r.deadline, later) = d - b
    <3>1. gap > 1 /\ gap = d - a /\ gap \in Nat
      BY <1>1, <1>2, <1>3, <1>5, <2>1
    <3>2. b = a + 1
      BY <1>1, <1>2, <2>1, <3>1
    <3>3. TickSub(r.deadline, later) = gap - 1
      BY <1>3, <2>1, <3>1
    <3> QED
      BY <1>1, <3>1, <3>2, <3>3 DEF SpanOf
  <2> HIDE DEF b
  <2>2. TimerOK(r, b, linked, later)
    BY <1>2, <2>1 DEF TimerOK
  <2> QED
    BY <1>5, <2>2 DEF b, later
<1> QED
  BY <1>4, <1>5 DEF later
-----------------------------------------------------------------------------
(* The invariant holds initially, and in the steps of the kernel.          *)

LEMMA TimerTypes ==
    ASSUME TimerInv
    PROVE  /\ TaskInv
           /\ tasks \in [Task -> TCB] /\ ticks \in Tick
           /\ pc \in [Task -> {"app", "attempt", "yield", "woken", "callback"}]
           /\ call \in [Task -> Call]
           /\ timer \in [JRT_Timer -> TimerType]
           /\ timer_list \in Seq(JRT_Timer)
           /\ age \in [JRT_Timer -> 0 .. TICK_MOD]
           /\ service \in Task \ {idle_index}
           /\ service \notin ApplicationTask
<1>1. service \in Task \ {idle_index} /\ service \notin ApplicationTask
  BY TaskIndices DEF service
<1> QED
  BY <1>1 DEF TimerInv, TypeOK, TaskTypeOK

LEMMA TimerInit == Init => TimerInv
<1> SUFFICES ASSUME Init
             PROVE  TimerInv
  OBVIOUS
<1>1. TaskInv
  BY InitInv DEF Init
<1>2. NewTimer \in TimerType
  <2>1. 0 \in 0 .. EXPIRE_MOD - 1
    BY TimerAssumption
  <2> QED
    BY <2>1, TickConstants DEF NewTimer, TimerType
<1>3. TypeOK
  <2>1. 0 \in 0 .. TICK_MOD
    BY TaskTableAssumption
  <2> QED
    BY <1>1, <1>2, <2>1, TimerAssumption DEF Init, TypeOK, TaskInv
<1>4. ListOK
  BY TimerAssumption DEF Init, ListOK, IsInjective
<1>5. ServiceKind
  <2>1. service \in Task /\ service # 0
    BY TaskIndices, TaskTableAssumption DEF service, timer_service_task_index
  <2>2. tasks[service] = prepare_timer_service_task(ticks)
    BY <2>1 DEF Init, TaskInit, JRT_KernelInit, service
  <2> QED
    BY <2>2 DEF ServiceKind, prepare_timer_service_task, prepare_task,
                task_wait_begin, task_wait_begin_until
<1>6. ServiceSeesWork
  BY DEF Init, ServiceSeesWork, Pending, NewTimer
<1>7. TimersOK
  <2> SUFFICES ASSUME NEW x \in JRT_Timer
               PROVE  TimerOK(timer[x], age[x], Contains(timer_list, x), ticks)
    BY DEF TimersOK
  <2>1. timer[x] = NewTimer
    BY DEF Init
  <2>2. 2 * 0 <= TICK_MOD
    BY TaskTableAssumption
  <2> QED
    BY <2>1, <2>2 DEF TimerOK, NewTimer
<1> QED
  BY <1>1, <1>3, <1>4, <1>5, <1>6, <1>7 DEF TimerInv

(* A step that leaves the timers and the clock alone and blocks the        *)
(* service at most when nothing is pending.                                *)
LEMMA SameTimers ==
    ASSUME TimerInv, TaskInv', UNCHANGED <<ticks, timer, timer_list, age>>,
           \/ tasks'[service].state # "BLOCKED"
           \/ tasks'[service] = tasks[service]
           \/ /\ tasks'[service].wait_kind = "TIMER_SERVICE"
              /\ \A x \in JRT_Timer : ~Pending(x)
    PROVE  TimerInv'
<1>1. TypeOK'
  BY DEF TimerInv, TypeOK, TaskInv
<1>2. ListOK' /\ TimersOK'
  BY DEF TimerInv, ListOK, TimersOK
<1>3. ServiceKind' /\ ServiceSeesWork'
  BY DEF TimerInv, ServiceKind, ServiceSeesWork, Pending
<1> QED
  BY <1>1, <1>2, <1>3 DEF TimerInv

LEMMA TimerKernelStep ==
    ASSUME TimerInv, PendSV \/ Services, UNCHANGED timerVars
    PROVE  TimerInv'
<1>1. TaskInv /\ service \in Task
  BY TimerTypes
<1>2. TaskInv' /\ NoNewWait
  BY <1>1, PendSVInv, PendSVNoNewWait, ServicesInv, ServicesNoNewWait
<1>3. UNCHANGED <<ticks, timer, timer_list, age>>
  BY DEF PendSV, Services, TaskYield, TaskDelay, TaskSuspend, TaskResume, Svc,
         timerVars
<1>4. \/ tasks'[service].state # "BLOCKED"
      \/ tasks'[service] = tasks[service]
  BY <1>1, <1>2 DEF NoNewWait
<1> QED
  BY <1>2, <1>3, <1>4, SameTimers

(* Waking the service, in the middle of a tick or of a call.               *)
LEMMA ServiceWake ==
    ASSUME TimerInv
    PROVE  LET T == task_timer_service_wake(tasks)
           IN  /\ T \in [Task -> TCB]
               /\ \A i \in Task : T[i] = tasks[i] \/ T[i] = task_wait_end(tasks[i], 1)
               /\ \A i \in Task :
                     /\ check_task(T[i])
                     /\ T[i].state = "RUNNING" => tasks[i].state = "RUNNING"
                     /\ tasks[i].state \in {"READY", "RUNNING"} =>
                            T[i] = tasks[i]
               /\ T[service].state # "BLOCKED"
               /\ \/ T = tasks
                  \/ /\ tasks[service].state = "BLOCKED"
                     /\ T = [tasks EXCEPT ![service] =
                                 task_wait_end(tasks[service], 1)]
<1> DEFINE T == task_timer_service_wake(tasks)
           entry == task_wait_end(tasks[service], 1)
<1>1. /\ tasks \in [Task -> TCB] /\ service \in Task
      /\ \A i \in Task : check_task(tasks[i])
  BY TimerTypes DEF TaskInv, KernelInvariantsHold, kernel_check_invariants
<1>2. CASE tasks[service].state = "BLOCKED"
  <2>1. T = [tasks EXCEPT ![service] = entry]
    BY <1>2 DEF task_timer_service_wake, TimerInv, ServiceKind
  <2>2. entry \in TCB
    BY <1>1, WaitEndType
  <2>3. entry.state = "READY" /\ check_task(entry)
    BY <1>1 DEF task_wait_end, check_task, TCB
  <2> HIDE DEF entry
  <2>4. /\ T \in [Task -> TCB] /\ T[service] = entry
        /\ \A i \in Task \ {service} : T[i] = tasks[i]
    BY <1>1, <2>1, <2>2
  <2> HIDE DEF T
  <2> QED
    BY <1>1, <1>2, <2>1, <2>3, <2>4 DEF T, entry
<1>3. CASE tasks[service].state # "BLOCKED"
  <2>1. T = tasks
    BY <1>3 DEF task_timer_service_wake
  <2> QED
    BY <1>1, <1>3, <2>1
<1> QED
  BY <1>2, <1>3

(* What the tick does to a timer, and when.                                *)
LEMMA TimerTickFields ==
    ASSUME TimerInv, TimerSysTick, NEW x \in JRT_Timer
    PROVE  /\ ticks' = TickAdd(ticks, 1)
           /\ Due(x, ticks') => /\ timer[x].active
                                /\ age[x] + 1 = Span(x)
                                /\ timer'[x] = ExpiredTimer(timer[x])
                                /\ age'[x] = 0
           /\ ~Due(x, ticks') =>
                 /\ timer'[x] = timer[x]
                 /\ age'[x] = IF timer[x].active /\ age[x] < TICK_MOD
                              THEN age[x] + 1 ELSE age[x]
           /\ TimerOK(timer'[x], age'[x], Contains(timer_list', x), ticks')
<1> DEFINE linked == Contains(timer_list, x)
           later == TickAdd(ticks, 1)
           a == age[x]
           r == timer[x]
<1>1. /\ r \in TimerType /\ a \in 0 .. TICK_MOD /\ ticks \in Tick
      /\ TimerOK(r, a, linked, ticks)
  BY TimerTypes DEF TimerInv, TimersOK
<1>2. linked \in BOOLEAN
  BY DEF Contains
<1>3. ticks' = later /\ timer_list' = timer_list
  BY DEF TimerSysTick, SysTickClock
<1>4. Due(x, ticks') <=> linked /\ r.active /\ Reached(later, r.deadline)
  BY <1>3 DEF Due
<1>5. /\ Due(x, ticks') => timer'[x] = ExpiredTimer(r) /\ age'[x] = 0
      /\ ~Due(x, ticks') =>
            /\ timer'[x] = timer[x]
            /\ age'[x] = IF timer[x].active /\ age[x] < TICK_MOD
                         THEN age[x] + 1 ELSE age[x]
  <2> DEFINE due == {y \in JRT_Timer : Due(y, ticks')}
  <2>1. /\ timer' = [y \in JRT_Timer |-> IF y \in due THEN Expired(y)
                                                     ELSE timer[y]]
        /\ age' = [y \in JRT_Timer |->
                      IF y \in due THEN 0
                      ELSE IF timer[y].active /\ age[y] < TICK_MOD
                           THEN age[y] + 1 ELSE age[y]]
    BY DEF TimerSysTick
  <2>2. x \in due <=> Due(x, ticks')
    OBVIOUS
  <2> HIDE DEF due
  <2> QED
    BY <2>1, <2>2, ExpiredIs
<1> HIDE DEF linked, later, r, a
<1>6. /\ Due(x, ticks') => /\ a + 1 = SpanOf(r.reload_ticks)
                           /\ TimerOK(ExpiredTimer(r), 0, linked, later)
      /\ ~Due(x, ticks') =>
            TimerOK(r, IF r.active /\ a < TICK_MOD THEN a + 1 ELSE a,
                    linked, later)
  BY <1>1, <1>2, <1>4, TimerTick DEF later
<1> QED
  BY <1>3, <1>4, <1>5, <1>6 DEF linked, later, r, a, Span, SpanOf

LEMMA TimerSysTickInv ==
    ASSUME TimerInv, TimerSysTick
    PROVE  TimerInv'
<1> DEFINE due == {x \in JRT_Timer : Due(x, ticks')}
           wakes == \E x \in due : timer[x].callback
           T == IF wakes THEN task_timer_service_wake(tasks) ELSE tasks
<1>1. /\ SysTickClock /\ tasks' = tick_tasks(T, ticks')
      /\ UNCHANGED timer_list
  BY DEF TimerSysTick
<1>2. /\ timer \in [JRT_Timer -> TimerType]
      /\ age \in [JRT_Timer -> 0 .. TICK_MOD]
      /\ service \in Task /\ tasks \in [Task -> TCB]
      /\ \A i \in Task : check_task(tasks[i])
  BY TimerTypes DEF TaskInv, KernelInvariantsHold, kernel_check_invariants
<1>3. /\ T \in [Task -> TCB]
      /\ \A i \in Task : /\ check_task(T[i])
                         /\ T[i].state = "RUNNING" => tasks[i].state = "RUNNING"
                         /\ tasks[i].state \in {"READY", "RUNNING"} =>
                                T[i] = tasks[i]
      /\ wakes => T[service].state # "BLOCKED"
      /\ ~wakes => T = tasks
  BY <1>2, ServiceWake
<1> HIDE DEF T, wakes
<1>4. TaskInv'
  BY <1>1, <1>3, TickInv DEF TimerInv
<1>5. TimersOK'
  BY TimerTickFields DEF TimersOK
<1>6. TypeOK'
  <2>1. ASSUME NEW x \in JRT_Timer
        PROVE  timer'[x] \in TimerType /\ age'[x] \in 0 .. TICK_MOD
    <3>1. timer[x] \in TimerType /\ age[x] \in 0 .. TICK_MOD
      BY <1>2
    <3>2. ExpiredTimer(timer[x]) \in TimerType
      BY <3>1, ExpiredType
    <3>3. timer'[x] \in TimerType
      BY <3>1, <3>2, TimerTickFields
    <3>4. \/ age'[x] = 0
          \/ age'[x] = age[x]
          \/ age[x] < TICK_MOD /\ age'[x] = age[x] + 1
      BY TimerTickFields
    <3>5. age'[x] \in 0 .. TICK_MOD
      BY <3>1, <3>4, TaskTableAssumption
    <3> QED
      BY <3>3, <3>5
  <2>2. /\ timer' = [x \in JRT_Timer |-> timer'[x]]
        /\ age' = [x \in JRT_Timer |-> age'[x]]
    BY DEF TimerSysTick
  <2>3. /\ timer' \in [JRT_Timer -> TimerType]
        /\ age' \in [JRT_Timer -> 0 .. TICK_MOD]
    BY <2>1, <2>2
  <2> QED
    BY <1>1, <1>4, <2>3 DEF TypeOK, TimerInv, TaskInv
<1>7. ListOK'
  BY <1>1 DEF TimerInv, ListOK
<1>8. ASSUME tasks'[service].state = "BLOCKED"
      PROVE  ~wakes /\ tasks'[service] = tasks[service]
  <2>1. tasks'[service] = tick_task(T[service], ticks')
    BY <1>1, <1>2 DEF tick_tasks
  <2>2. tasks'[service] = T[service]
    BY <1>2, <1>3, <1>8, <2>1, TickBlocksNone
  <2> QED
    BY <1>3, <1>8, <2>2
<1>9. ServiceKind'
  BY <1>8 DEF ServiceKind, TimerInv
<1>10. ServiceSeesWork'
  <2> SUFFICES ASSUME tasks'[service].state = "BLOCKED", NEW x \in JRT_Timer
               PROVE  ~(timer'[x].callback /\ timer'[x].expirations # 0)
    BY DEF ServiceSeesWork, Pending
  <2>1. /\ ~wakes
        /\ ~(timer[x].callback /\ timer[x].expirations # 0)
    BY <1>8 DEF TimerInv, ServiceSeesWork, Pending
  <2>2. CASE Due(x, ticks')
    <3>1. timer[x] \in TimerType /\ ~timer[x].callback
      BY <1>2, <2>1, <2>2 DEF wakes
    <3>2. ExpiredTimer(timer[x]).callback = timer[x].callback
      BY <3>1 DEF ExpiredTimer, TimerType
    <3> QED
      BY <2>2, <3>1, <3>2, TimerTickFields
  <2>3. CASE ~Due(x, ticks')
    BY <2>1, <2>3, TimerTickFields
  <2> QED
    BY <2>2, <2>3
<1> QED
  BY <1>4, <1>5, <1>6, <1>7, <1>9, <1>10 DEF TimerInv

-----------------------------------------------------------------------------
(* The service task.                                                       *)

(* Nothing is pending outside the list.                                    *)
LEMMA PendingIsLinked ==
    ASSUME TimerInv, NEW x \in JRT_Timer, Pending(x)
    PROVE  \E i \in DOMAIN timer_list : timer_list[i] = x
<1>1. Contains(timer_list, x)
  BY DEF TimerInv, TimersOK, TimerOK, Pending
<1>2. DOMAIN timer_list = 1 .. Len(timer_list)
  BY TimerTypes, LenProperties
<1> QED
  BY <1>1, <1>2 DEF Contains

(* The fields of one timer change, and it may be linked by that.           *)
LEMMA OneTimer ==
    ASSUME TimerInv, TaskInv', UNCHANGED ticks,
           NEW x \in JRT_Timer, NEW r \in TimerType, NEW a \in 0 .. TICK_MOD,
           timer' = [timer EXCEPT ![x] = r], age' = [age EXCEPT ![x] = a],
           timer_list' \in Seq(JRT_Timer), ListOK',
           \A y \in JRT_Timer : Contains(timer_list, y) =>
                                    Contains(timer_list', y),
           TimerOK(r, a, Contains(timer_list', x), ticks),
           \/ tasks'[service].state # "BLOCKED"
           \/ /\ tasks'[service] = tasks[service]
              /\ r.callback /\ r.expirations # 0 => Pending(x)
    PROVE  TimerInv'
<1>1. /\ timer \in [JRT_Timer -> TimerType]
      /\ age \in [JRT_Timer -> 0 .. TICK_MOD]
  BY TimerTypes
<1>2. TypeOK'
  BY <1>1 DEF TypeOK, TaskInv
<1>3. ServiceKind'
  BY DEF TimerInv, ServiceKind
<1>4. ServiceSeesWork'
  BY <1>1 DEF TimerInv, ServiceSeesWork, Pending
<1>5. TimersOK'
  <2> SUFFICES ASSUME NEW y \in JRT_Timer
               PROVE  TimerOK(timer'[y], age'[y], Contains(timer_list', y), ticks)
    BY DEF TimersOK
  <2>1. CASE y = x
    BY <1>1, <2>1
  <2>2. CASE y # x
    <3>1. timer'[y] = timer[y] /\ age'[y] = age[y]
      BY <1>1, <2>2
    <3>2. TimerOK(timer[y], age[y], Contains(timer_list, y), ticks)
      BY DEF TimerInv, TimersOK
    <3> QED
      BY <3>1, <3>2 DEF TimerOK
  <2> QED
    BY <2>1, <2>2
<1> QED
  BY <1>2, <1>3, <1>4, <1>5 DEF TimerInv

(* A step of the service that moves only its place in the loop.            *)
LEMMA ServiceMoves ==
    ASSUME TimerInv, NEW where \in {"app", "callback"}, Thread(service),
           pc[service] # "yield", pc' = [pc EXCEPT ![service] = where],
           UNCHANGED <<tasks, current, ticks, pendsv, call>>
    PROVE  TaskInv'
<1> DEFINE c == call[service]
<1>1. TaskInv /\ service \in Task /\ call \in [Task -> Call]
  BY TimerTypes
<1>2. c \in Call /\ call' = [call EXCEPT ![service] = c]
  BY <1>1
<1> HIDE DEF c
<1> QED
  BY <1>1, <1>2, CallStep

LEMMA ServiceClaimInv ==
    ASSUME TimerInv, ServiceClaim
    PROVE  TimerInv'
<1>1. PICK i \in DOMAIN timer_list :
         /\ Pending(timer_list[i])
         /\ timer' = [timer EXCEPT ![timer_list[i]].expirations = @ - 1]
  BY DEF ServiceClaim
<1> DEFINE x == timer_list[i]
           r == [timer[x] EXCEPT !.expirations = @ - 1]
           a == age[x]
           where == "callback"
<1>2. /\ Thread(service) /\ pc[service] \in {"app", "woken"}
      /\ pc' = [pc EXCEPT ![service] = where]
      /\ UNCHANGED <<tasks, current, ticks, pendsv, call, timer_list, age>>
  BY DEF ServiceClaim, ServiceLoop
<1>3. where \in {"app", "callback"}
  OBVIOUS
<1>4. x \in JRT_Timer
  BY TimerTypes, ElementOfSeq, LenProperties
<1>5. /\ timer[x] \in TimerType /\ age[x] \in 0 .. TICK_MOD
      /\ TimerOK(timer[x], age[x], Contains(timer_list, x), ticks)
      /\ Contains(timer_list, x)
      /\ age = [age EXCEPT ![x] = a]
  <2>1. DOMAIN timer_list = 1 .. Len(timer_list)
    BY TimerTypes, LenProperties
  <2> QED
    BY <1>4, <2>1, TimerTypes DEF TimerInv, TimersOK, Contains
<1>6. r \in TimerType /\ TimerOK(r, a, TRUE, ticks)
  <2>1. timer[x].expirations - 1 \in 0 .. EXPIRE_MOD - 1
    BY <1>1, <1>5, TimerAssumption DEF Pending, TimerType
  <2>2. r \in TimerType
    BY <1>5, <2>1 DEF TimerType
  <2>3. /\ r.active = timer[x].active /\ r.periodic = timer[x].periodic
        /\ r.period = timer[x].period /\ r.deadline = timer[x].deadline
        /\ r.reload_ticks = timer[x].reload_ticks
    BY <1>5 DEF TimerType
  <2> HIDE DEF r
  <2> QED
    BY <1>5, <2>2, <2>3 DEF TimerOK
<1>7. timer' = [timer EXCEPT ![x] = r]
  BY <1>1
<1>8. ListOK'
  BY <1>2 DEF TimerInv, ListOK
<1>9. tasks'[service].state # "BLOCKED"
  <2>1. tasks[service].state = "RUNNING"
    BY <1>2, ThreadRuns, TimerTypes
  <2> QED
    BY <1>2, <2>1
<1> HIDE DEF x, r, a, where
<1>10. TaskInv'
  BY <1>2, <1>3, ServiceMoves
<1> QED
  BY <1>2, <1>4, <1>5, <1>6, <1>7, <1>8, <1>9, <1>10, OneTimer, TimerTypes DEF a

LEMMA ServiceBlockInv ==
    ASSUME TimerInv, ServiceBlock
    PROVE  TimerInv'
<1> DEFINE deadline == task_wait_deadline(ticks, JRT_WAIT_FOREVER)
           object == timer_service_wait_object
           kind == "TIMER_SERVICE"
           entry == task_wait_begin_until(tasks[service], object, kind, deadline)
<1>1. /\ Thread(service)
      /\ \A i \in DOMAIN timer_list : ~Pending(timer_list[i])
      /\ tasks' = [tasks EXCEPT ![service] = entry]
      /\ pc' = [pc EXCEPT ![service] = "yield"]
      /\ UNCHANGED <<current, ticks, pendsv, call, timer, timer_list, age>>
  BY DEF ServiceBlock, ServiceLoop, timerVars, task_wait_begin
<1>2. /\ TaskInv /\ service \in Task \ {idle_index} /\ tasks \in [Task -> TCB]
      /\ ticks \in Tick /\ call \in [Task -> Call]
  BY TimerTypes
<1>3. /\ deadline \in Deadline /\ deadline.forever = 1
      /\ object \in Object \cup {timer_service_wait_object}
      /\ kind \in WaitKind
  <2>1. deadline \in Deadline
    BY <1>2, DeadlineType, TickConstants
  <2> QED
    BY <2>1 DEF task_wait_deadline, WaitKind
<1>4. tasks'[service].wait_kind = "TIMER_SERVICE"
  <2>1. tasks[service] \in TCB
    BY <1>2
  <2>2. entry.wait_kind = "TIMER_SERVICE"
    BY <2>1 DEF task_wait_begin_until, TCB
  <2> HIDE DEF entry
  <2> QED
    BY <1>1, <1>2, <2>2
<1>5. \A x \in JRT_Timer : ~Pending(x)
  BY <1>1, PendingIsLinked
<1> HIDE DEF deadline, object, kind
<1>6. TaskInv'
  <2>1. /\ ~(deadline.forever = 0
               /\ Elapsed(ticks, deadline.start, deadline.tick))
        /\ call' \in [Task -> Call]
        /\ UNCHANGED <<current, ticks, pendsv>>
    BY <1>1, <1>2, <1>3
  <2> QED
    BY <1>1, <1>2, <1>3, <2>1, BlockEntryInv
<1> QED
  BY <1>1, <1>4, <1>5, <1>6, SameTimers

LEMMA ServiceStepInv ==
    ASSUME TimerInv, ServiceStep
    PROVE  TimerInv'
<1>1. CASE CallbackReturn
  <2> DEFINE where == "app"
  <2>1. /\ Thread(service) /\ pc[service] # "yield"
        /\ pc' = [pc EXCEPT ![service] = where] /\ where \in {"app", "callback"}
        /\ UNCHANGED <<tasks, current, ticks, pendsv, call>>
        /\ UNCHANGED <<timer, timer_list, age>>
    BY <1>1 DEF CallbackReturn, timerVars
  <2> HIDE DEF where
  <2>2. TaskInv'
    BY <2>1, ServiceMoves
  <2> QED
    BY <2>1, <2>2, SameTimers
<1>2. CASE ArchYield(service) /\ UNCHANGED timerVars
  <2>1. TaskInv'
    BY <1>2, ArchYieldInv, TimerTypes
  <2> QED
    BY <1>2, <2>1, SameTimers DEF ArchYield, timerVars
<1> QED
  BY <1>1, <1>2, ServiceClaimInv, ServiceBlockInv DEF ServiceStep
-----------------------------------------------------------------------------
(* The operations of tasks and callbacks.                                  *)

(* timer_link adds a timer at most once and drops none.                    *)
LEMMA TimerLink ==
    ASSUME TimerInv, NEW x \in JRT_Timer
    PROVE  LET list == timer_link(x)
           IN  /\ list \in Seq(JRT_Timer)
               /\ \A i, j \in DOMAIN list : list[i] = list[j] => i = j
               /\ Contains(list, x)
               /\ \A y \in JRT_Timer : Contains(timer_list, y) => Contains(list, y)
<1> DEFINE list == timer_link(x)
           n == Len(timer_list)
<1>1. /\ timer_list \in Seq(JRT_Timer) /\ n \in Nat
      /\ DOMAIN timer_list = 1 .. n
  BY TimerTypes, LenProperties
<1>2. \A i, j \in 1 .. n : timer_list[i] = timer_list[j] => i = j
  BY <1>1 DEF TimerInv, ListOK
<1>3. CASE Contains(timer_list, x)
  BY <1>1, <1>2, <1>3 DEF timer_link
<1>4. CASE ~Contains(timer_list, x)
  <2>1. list = <<x>> \o timer_list
    BY <1>4 DEF timer_link
  <2>2. <<x>> \in Seq(JRT_Timer) /\ Len(<<x>>) = 1 /\ <<x>>[1] = x
    OBVIOUS
  <2>3. /\ list \in Seq(JRT_Timer) /\ Len(list) = 1 + n
        /\ \A i \in 1 .. 1 + n :
              list[i] = IF i <= 1 THEN <<x>>[i] ELSE timer_list[i - 1]
    BY <1>1, <2>1, <2>2, ConcatProperties
  <2> HIDE DEF list
  <2>4. DOMAIN list = 1 .. 1 + n
    BY <2>3, LenProperties
  <2>5. list[1] = x
    BY <1>1, <2>2, <2>3
  <2>6. \A i \in 2 .. 1 + n : list[i] = timer_list[i - 1] /\ i - 1 \in 1 .. n
    BY <1>1, <2>3
  <2>7. \A k \in 1 .. n : timer_list[k] # x
    BY <1>4 DEF Contains
  <2>8. ASSUME NEW i \in 1 .. 1 + n, NEW j \in 1 .. 1 + n, list[i] = list[j]
        PROVE  i = j
    <3>1. i = 1 \/ i \in 2 .. 1 + n
      BY <1>1
    <3>2. j = 1 \/ j \in 2 .. 1 + n
      BY <1>1
    <3>3. i = 1 <=> j = 1
      BY <2>5, <2>6, <2>7, <2>8, <3>1, <3>2
    <3>4. CASE i # 1 /\ j # 1
      <4>1. i - 1 = j - 1
        BY <1>2, <2>6, <2>8, <3>1, <3>2, <3>4
      <4> QED
        BY <4>1, <1>1
    <3> QED
      BY <3>3, <3>4
  <2>9. Contains(list, x)
    BY <1>1, <2>3, <2>5 DEF Contains
  <2>10. ASSUME NEW y \in JRT_Timer, Contains(timer_list, y)
         PROVE  Contains(list, y)
    <3>1. PICK k \in 1 .. n : timer_list[k] = y
      BY <2>10 DEF Contains
    <3>2. k + 1 \in 1 .. 1 + n /\ list[k + 1] = timer_list[(k + 1) - 1]
      BY <1>1, <2>3
    <3>3. list[k + 1] = y
      BY <3>1, <3>2
    <3> QED
      BY <2>3, <3>2, <3>3 DEF Contains
  <2> QED
    BY <2>3, <2>4, <2>8, <2>9, <2>10 DEF list
<1> QED
  BY <1>3, <1>4

LEMMA ConfiguredInv ==
    ASSUME TimerInv, NEW x \in JRT_Timer, NEW r \in TimerType,
           Configured(x, r), TimerOK(r, 0, TRUE, ticks),
           r.callback /\ r.expirations # 0 => Pending(x)
    PROVE  TimerInv'
<1> DEFINE a == 0
<1>1. /\ timer' = [timer EXCEPT ![x] = r] /\ age' = [age EXCEPT ![x] = a]
      /\ timer_list' = timer_link(x)
      /\ UNCHANGED <<tasks, current, ticks, pendsv, pc, call>>
  BY DEF Configured, taskVars
<1>2. TaskInv'
  BY <1>1, SameTableInv DEF TimerInv
<1>3. /\ timer_list' \in Seq(JRT_Timer)
      /\ ListOK'
      /\ Contains(timer_list', x)
      /\ \A y \in JRT_Timer : Contains(timer_list, y) =>
                                  Contains(timer_list', y)
  BY <1>1, TimerLink DEF ListOK
<1>4. a \in 0 .. TICK_MOD
  BY TaskTableAssumption
<1>5. TimerOK(r, a, Contains(timer_list', x), ticks)
  BY <1>3
<1> HIDE DEF a
<1> QED
  BY <1>1, <1>2, <1>3, <1>4, <1>5, OneTimer

(* Start and start-periodic, for both kinds of timer.                      *)
LEMMA StartInv ==
    ASSUME TimerInv, NEW x \in JRT_Timer, NEW delay \in TimerDelay[x],
           NEW periodic \in BOOLEAN, periodic => delay # 0,
           NEW period, period = (IF periodic THEN delay ELSE 0),
           Configured(x, [timer[x] EXCEPT !.deadline = TickAdd(ticks, delay),
                                          !.period = period,
                                          !.reload_ticks = delay,
                                          !.periodic = periodic,
                                          !.active = TRUE])
    PROVE  TimerInv'
<1> DEFINE r == [timer[x] EXCEPT !.deadline = TickAdd(ticks, delay),
                                 !.period = period,
                                 !.reload_ticks = delay,
                                 !.periodic = periodic,
                                 !.active = TRUE]
<1>1. delay \in Tick /\ 2 * delay <= TICK_MOD /\ ticks \in Tick
  BY TimerTypes, TimerAssumption
<1>2. timer[x] \in TimerType
  BY TimerTypes
<1>3. /\ TickAdd(ticks, delay) \in Tick /\ period \in Tick
      /\ TickSub(TickAdd(ticks, delay), ticks) = delay
  BY <1>1, TickAddType, TimeoutDistance, TickConstants
<1>4. r \in TimerType
  BY <1>1, <1>2, <1>3 DEF TimerType
<1>5. /\ r.deadline = TickAdd(ticks, delay) /\ r.period = period
      /\ r.reload_ticks = delay /\ r.periodic = periodic
      /\ r.callback = timer[x].callback
      /\ r.expirations = timer[x].expirations
  BY <1>2 DEF TimerType
<1>6. Configured(x, r)
  OBVIOUS
<1> HIDE DEF r
<1>7. 0 < SpanOf(delay) /\ delay = delay - 0
  BY <1>1, TickConstants DEF SpanOf
<1>8. TimerOK(r, 0, TRUE, ticks)
  BY <1>1, <1>3, <1>5, <1>7 DEF TimerOK
<1>9. r.callback /\ r.expirations # 0 => Pending(x)
  BY <1>5 DEF Pending
<1> QED
  BY <1>4, <1>6, <1>8, <1>9, ConfiguredInv

LEMMA RestartInv ==
    ASSUME TimerInv, NEW t, NEW x \in JRT_Timer, TimerRestart(t, x)
    PROVE  TimerInv'
<1> DEFINE d == timer[x].reload_ticks
           r == [timer[x] EXCEPT !.deadline = TickAdd(ticks, d),
                                 !.active = TRUE]
<1>1. Configured(x, r) /\ d # 0
  BY DEF TimerRestart
<1>2. /\ timer[x] \in TimerType /\ ticks \in Tick
      /\ TimerOK(timer[x], age[x], Contains(timer_list, x), ticks)
  BY TimerTypes DEF TimerInv, TimersOK
<1>3. d \in Tick
  BY <1>2 DEF TimerType
<1>4. /\ TickAdd(ticks, d) \in Tick
      /\ TickSub(TickAdd(ticks, d), ticks) = d
  BY <1>2, <1>3, TickAddType, TimeoutDistance
<1>5. r \in TimerType
  BY <1>2, <1>4 DEF TimerType
<1>6. /\ r.deadline = TickAdd(ticks, d) /\ r.period = timer[x].period
      /\ r.reload_ticks = d /\ r.periodic = timer[x].periodic
      /\ r.callback = timer[x].callback
      /\ r.expirations = timer[x].expirations
  BY <1>2 DEF TimerType
<1>10. d \in Nat
  BY <1>3, TickConstants
<1> HIDE DEF r, d
<1>7. 0 < SpanOf(d) /\ d = d - 0
  BY <1>10 DEF SpanOf
<1>8. TimerOK(r, 0, TRUE, ticks)
  BY <1>2, <1>4, <1>6, <1>7 DEF TimerOK, d
<1>9. r.callback /\ r.expirations # 0 => Pending(x)
  BY <1>6 DEF Pending
<1> QED
  BY <1>1, <1>5, <1>8, <1>9, ConfiguredInv

LEMMA CreateInv ==
    ASSUME TimerInv, NEW t, NEW x \in JRT_Timer, TimerCreateStatic(t, x)
    PROVE  TimerInv'
<1> DEFINE r == NewTimer
<1>1. Configured(x, r)
  BY DEF TimerCreateStatic
<1>2. 0 \in 0 .. EXPIRE_MOD - 1 /\ 2 * 0 <= TICK_MOD
  BY TimerAssumption, TaskTableAssumption
<1>3. r \in TimerType
  BY <1>2, TickConstants DEF NewTimer, TimerType
<1>4. TimerOK(r, 0, TRUE, ticks) /\ r.expirations = 0
  BY <1>2 DEF NewTimer, TimerOK
<1> HIDE DEF r
<1> QED
  BY <1>1, <1>3, <1>4, ConfiguredInv

(* An operation that leaves the list alone and writes one timer: what it   *)
(* leaves active keeps its deadline, and the service is awake if the       *)
(* timer is pending afterwards and was not before.                         *)
LEMMA FieldsInv ==
    ASSUME TimerInv, TaskInv', UNCHANGED <<ticks, timer_list>>,
           NEW x \in JRT_Timer, NEW r \in TimerType, NEW a \in 0 .. TICK_MOD,
           timer' = [timer EXCEPT ![x] = r], age' = [age EXCEPT ![x] = a],
           r.deadline = timer[x].deadline, r.period = timer[x].period,
           r.reload_ticks = timer[x].reload_ticks,
           r.periodic = timer[x].periodic,
           r.active => timer[x].active /\ a = age[x],
           r.expirations \in {0, timer[x].expirations},
           \/ tasks'[service].state # "BLOCKED"
           \/ /\ tasks'[service] = tasks[service]
              /\ r.callback /\ r.expirations # 0 => Pending(x)
    PROVE  TimerInv'
<1>1. TimerOK(timer[x], age[x], Contains(timer_list, x), ticks)
  BY DEF TimerInv, TimersOK
<1>2. TimerOK(r, a, Contains(timer_list, x), ticks)
  BY <1>1 DEF TimerOK
<1>3. timer_list' \in Seq(JRT_Timer) /\ ListOK'
  BY TimerTypes DEF TimerInv, ListOK
<1> QED
  BY <1>2, <1>3, OneTimer

LEMMA StopInv ==
    ASSUME TimerInv, NEW t, NEW x \in JRT_Timer, TimerStop(t, x)
    PROVE  TimerInv'
<1> DEFINE r == [timer[x] EXCEPT !.active = FALSE]
           a == 0
<1>1. /\ timer' = [timer EXCEPT ![x] = r] /\ age' = [age EXCEPT ![x] = a]
      /\ UNCHANGED <<tasks, current, ticks, pendsv, pc, call, timer_list>>
  BY DEF TimerStop, taskVars
<1>2. TaskInv'
  BY <1>1, SameTableInv DEF TimerInv
<1>3. timer[x] \in TimerType /\ a \in 0 .. TICK_MOD
  BY TimerTypes, TaskTableAssumption
<1>4. /\ r \in TimerType /\ ~r.active
      /\ r.deadline = timer[x].deadline /\ r.period = timer[x].period
      /\ r.reload_ticks = timer[x].reload_ticks
      /\ r.periodic = timer[x].periodic /\ r.callback = timer[x].callback
      /\ r.expirations = timer[x].expirations
  BY <1>3 DEF TimerType
<1> HIDE DEF r, a
<1>5. r.callback /\ r.expirations # 0 => Pending(x)
  BY <1>4 DEF Pending
<1> QED
  BY <1>1, <1>2, <1>3, <1>4, <1>5, FieldsInv

LEMMA TakeInv ==
    ASSUME TimerInv, NEW t, NEW x \in JRT_Timer, TimerTakeExpirations(t, x)
    PROVE  TimerInv'
<1> DEFINE r == [timer[x] EXCEPT !.expirations = 0]
           a == age[x]
<1>1. /\ timer' = [timer EXCEPT ![x] = r]
      /\ UNCHANGED <<tasks, current, ticks, pendsv, pc, call, timer_list, age>>
  BY DEF TimerTakeExpirations, taskVars
<1>2. TaskInv'
  BY <1>1, SameTableInv DEF TimerInv
<1>3. /\ timer[x] \in TimerType /\ a \in 0 .. TICK_MOD
      /\ age = [age EXCEPT ![x] = a]
  BY TimerTypes
<1>4. 0 \in 0 .. EXPIRE_MOD - 1
  BY TimerAssumption
<1>5. /\ r \in TimerType /\ r.active = timer[x].active
      /\ r.deadline = timer[x].deadline /\ r.period = timer[x].period
      /\ r.reload_ticks = timer[x].reload_ticks
      /\ r.periodic = timer[x].periodic
      /\ r.expirations = 0
  BY <1>3, <1>4 DEF TimerType
<1> HIDE DEF r
<1>6. a = age[x]
  OBVIOUS
<1> HIDE DEF a
<1> QED
  BY <1>1, <1>2, <1>3, <1>5, <1>6, FieldsInv

LEMMA SetCallbackInv ==
    ASSUME TimerInv, NEW t, NEW x \in JRT_Timer, NEW callback \in BOOLEAN,
           TimerSetCallback(t, x, callback)
    PROVE  TimerInv'
<1> DEFINE r == [timer[x] EXCEPT !.callback = callback]
           a == age[x]
           wakes == callback /\ timer[x].expirations # 0
           T == task_timer_service_wake(tasks)
<1>1. /\ timer' = [timer EXCEPT ![x] = r]
      /\ UNCHANGED <<current, ticks, pc, call, timer_list, age>>
      /\ wakes => tasks' = T /\ pendsv' = 1
      /\ ~wakes => UNCHANGED <<tasks, pendsv>>
  BY DEF TimerSetCallback
<1>2. /\ T[service].state # "BLOCKED"
      /\ \/ T = tasks
         \/ /\ tasks[service].state = "BLOCKED"
            /\ T = [tasks EXCEPT ![service] = task_wait_end(tasks[service], 1)]
  BY ServiceWake
<1> HIDE DEF T, wakes
<1>3. TaskInv'
  BY <1>1, <1>2, EndWaitInv, SameTableInv, TimerTypes
<1>4. /\ timer[x] \in TimerType /\ a \in 0 .. TICK_MOD
      /\ age = [age EXCEPT ![x] = a]
  BY TimerTypes
<1>5. /\ r \in TimerType /\ r.active = timer[x].active
      /\ r.deadline = timer[x].deadline /\ r.period = timer[x].period
      /\ r.reload_ticks = timer[x].reload_ticks
      /\ r.periodic = timer[x].periodic
      /\ r.expirations = timer[x].expirations /\ r.callback = callback
  BY <1>4 DEF TimerType
<1> HIDE DEF r
<1>6. \/ tasks'[service].state # "BLOCKED"
      \/ /\ tasks'[service] = tasks[service]
         /\ ~(r.callback /\ r.expirations # 0)
  BY <1>1, <1>2, <1>5 DEF wakes
<1>7. a = age[x]
  OBVIOUS
<1> HIDE DEF a
<1> QED
  BY <1>1, <1>3, <1>4, <1>5, <1>6, <1>7, FieldsInv

LEMMA OperationsInv ==
    ASSUME TimerInv, NEW t, NEW x \in JRT_Timer, Operations(t, x)
    PROVE  TimerInv'
<1>1. ASSUME NEW d \in TimerDelay[x], TimerStart(t, x, d)
      PROVE  TimerInv'
  <2> DEFINE periodic == FALSE
             period == 0
  <2>1. Configured(x, [timer[x] EXCEPT !.deadline = TickAdd(ticks, d),
                                       !.period = period,
                                       !.reload_ticks = d,
                                       !.periodic = periodic,
                                       !.active = TRUE])
    BY <1>1 DEF TimerStart
  <2>2. /\ periodic \in BOOLEAN /\ (periodic => d # 0)
        /\ period = (IF periodic THEN d ELSE 0)
    OBVIOUS
  <2> HIDE DEF periodic, period
  <2> QED
    BY <2>1, <2>2, StartInv
<1>2. ASSUME NEW d \in TimerDelay[x], TimerStartPeriodic(t, x, d)
      PROVE  TimerInv'
  <2> DEFINE periodic == TRUE
             period == d
  <2>1. Configured(x, [timer[x] EXCEPT !.deadline = TickAdd(ticks, d),
                                       !.period = period,
                                       !.reload_ticks = d,
                                       !.periodic = periodic,
                                       !.active = TRUE])
    BY <1>2 DEF TimerStartPeriodic
  <2>2. /\ periodic \in BOOLEAN /\ (periodic => d # 0)
        /\ period = (IF periodic THEN d ELSE 0)
    BY <1>2 DEF TimerStartPeriodic
  <2> HIDE DEF periodic, period
  <2> QED
    BY <2>1, <2>2, StartInv
<1> QED
  BY <1>1, <1>2, RestartInv, CreateInv, StopInv, SetCallbackInv, TakeInv
     DEF Operations, TimerDispatch

LEMMA TimerNextInv == TimerInv /\ [Next]_vars => TimerInv'
<1> SUFFICES ASSUME TimerInv, [Next]_vars
             PROVE  TimerInv'
  OBVIOUS
<1>1. CASE UNCHANGED vars
  <2>1. /\ UNCHANGED <<tasks, current, ticks, pendsv, pc, call>>
        /\ UNCHANGED <<timer, timer_list, age>>
    BY <1>1 DEF vars
  <2>2. TaskInv'
    BY <2>1, SameTableInv DEF TimerInv
  <2> QED
    BY <2>1, <2>2, SameTimers
<1>2. CASE Next
  BY <1>2, TimerKernelStep, TimerSysTickInv, ServiceStepInv, OperationsInv
     DEF Next
<1> QED
  BY <1>1, <1>2

LEMMA TimerInvariant == Safety => []TimerInv
BY TimerInit, TimerNextInv, PTL DEF Safety
-----------------------------------------------------------------------------
(* The theorems.                                                           *)

(* However the tick, SetCallback, the claims and the block of              *)
(* kernel_timer_service_claim are ordered, the timer service task is never *)
(* BLOCKED while an expiration waits for its callback.                     *)
THEOREM ServiceSleepsOverNoWork == Safety => []ServiceSeesWork
<1>1. TimerInv => ServiceSeesWork
  BY DEF TimerInv
<1> QED
  BY <1>1, TimerInvariant, PTL

(* After every tick of kernel_timer_tick an active timer has been running  *)
(* for less than its delay or period, across wraparound of the counter.    *)
THEOREM TimersAreNeverOverdue == Safety => []NoOverdueTimer
<1>1. TimerInv => NoOverdueTimer
  BY DEF TimerInv, TimersOK, TimerOK, NoOverdueTimer, Span, SpanOf
<1> QED
  BY <1>1, TimerInvariant, PTL

(* timer_invariant_check never halts the system: no sequence of creations, *)
(* starts, restarts and ticks gives the list a cycle or separates the      *)
(* periodic flag from the period.                                          *)
THEOREM TimerChecksNeverFail == Safety => []TimerChecksHold
<1>1. TimerInv => TimerChecksHold
  BY DEF TimerInv, TimersOK, TimerOK, ListOK, TimerChecksHold
<1> QED
  BY <1>1, TimerInvariant, PTL

(* A step that is not a tick leaves the clock alone.                       *)
LEMMA OnlyTicksTick ==
    ASSUME [Next]_vars, ~TimerSysTick
    PROVE  UNCHANGED ticks
<1>1. CASE UNCHANGED vars
  BY <1>1 DEF vars
<1>2. CASE PendSV \/ Services \/ ServiceStep
  BY <1>2 DEF PendSV, Services, TaskYield, TaskDelay, TaskSuspend, TaskResume,
              Svc, ServiceStep, ServiceClaim, ServiceBlock, CallbackReturn,
              ArchYield
<1>3. ASSUME NEW t, NEW x, Operations(t, x)
      PROVE  UNCHANGED ticks
  BY <1>3 DEF Operations, TimerStart, TimerStartPeriodic, TimerRestart,
              TimerCreateStatic, TimerStop, TimerSetCallback, TimerDispatch,
              TimerTakeExpirations, Configured, taskVars
<1> QED
  BY <1>1, <1>2, <1>3 DEF Next

(* The tick that records an expiration is the last one of the timer's      *)
(* delay or period, counted from its latest start, restart or expiry.      *)
THEOREM TimersExpireOnTime == Safety => ExpiryIsPunctual
<1> DEFINE P == \A x \in JRT_Timer :
                   timer'[x].expirations = (timer[x].expirations + 1) % EXPIRE_MOD
                     /\ ticks' # ticks =>
                       timer[x].active /\ age[x] + 1 = Span(x)
<1>1. ASSUME TimerInv, [Next]_vars
      PROVE  P
  <2> SUFFICES ASSUME NEW x \in JRT_Timer, ticks' # ticks,
                      timer'[x].expirations =
                          (timer[x].expirations + 1) % EXPIRE_MOD
               PROVE  timer[x].active /\ age[x] + 1 = Span(x)
    OBVIOUS
  <2>1. TimerSysTick
    BY <1>1, OnlyTicksTick
  <2>2. Due(x, ticks')
    <3> DEFINE n == timer[x].expirations
    <3>1. n \in Nat /\ n < EXPIRE_MOD /\ EXPIRE_MOD \in Nat /\ EXPIRE_MOD >= 2
      <4>1. timer[x] \in TimerType
        BY <1>1, TimerTypes
      <4> QED
        BY <4>1, TimerAssumption DEF TimerType
    <3> HIDE DEF n
    <3>2. (n + 1) % EXPIRE_MOD # n
      BY <3>1
    <3> QED
      BY <1>1, <2>1, <3>2, TimerTickFields DEF n
  <2> QED
    BY <1>1, <2>1, <2>2, TimerTickFields
<1>2. TimerInv /\ [Next]_vars => [P]_vars
  BY <1>1
<1>3. ExpiryIsPunctual <=> [][P]_vars
  BY DEF ExpiryIsPunctual
<1> HIDE DEF P
<1> QED
  BY <1>2, <1>3, TimerInvariant, PTL DEF Safety
=============================================================================
