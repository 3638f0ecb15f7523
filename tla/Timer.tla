------------------------------- MODULE Timer --------------------------------
(***************************************************************************)
(* Software timers (kernel/timer.c) and the kernel's timer service task    *)
(* (kernel/task.c): the tick records expirations and wakes the service,    *)
(* the service claims them one by one and runs callbacks outside the       *)
(* critical section, and tasks and callbacks reconfigure timers meanwhile. *)
(* In this module the timer service of module Task runs; a place "app" or  *)
(* "woken" of it is the top of its loop.                                   *)
(***************************************************************************)
EXTENDS Task, SequencesExt

CONSTANTS
    JRT_Timer,    \* the timers
    Created,      \* those created before the kernel starts, newest first
    TimerDelay,   \* for each timer, the arguments of start and start-periodic
    EXPIRE_MOD    \* 2^32 in the code: the range of timer->expirations

\* A timer is linked once, however often it is created; the comparison in the
\* tick is signed, so a timer reaches half the counter.
ASSUME TimerAssumption ==
    /\ Created \in Seq(JRT_Timer) /\ IsInjective(Created)
    /\ EXPIRE_MOD \in Nat \ {0, 1}
    /\ \A x \in JRT_Timer : \A d \in TimerDelay[x] :
          d \in Tick /\ 2 * d <= TICK_MOD

VARIABLES
    timer,       \* the timers' fields
    timer_list,  \* the linked list, from its head
    age          \* history: ticks since a timer was armed or last expired

timerVars == <<timer, timer_list, age>>
vars == <<tasks, current, ticks, pendsv, pc, call, timer, timer_list, age>>

TimerType == [deadline : Tick, period : Tick, reload_ticks : Tick,
              expirations : 0 .. EXPIRE_MOD - 1,
              active : BOOLEAN, periodic : BOOLEAN, callback : BOOLEAN]

TypeOK ==
    /\ TaskTypeOK
    /\ timer \in [JRT_Timer -> TimerType]
    /\ timer_list \in Seq(JRT_Timer)
    /\ age \in [JRT_Timer -> 0 .. TICK_MOD]

\* JRT_TimerCreateStatic, or static storage that was never created.
NewTimer == [deadline |-> 0, period |-> 0, reload_ticks |-> 0,
             expirations |-> 0, active |-> FALSE, periodic |-> FALSE,
             callback |-> FALSE]

Init ==
    /\ TaskInit
    /\ timer = [x \in JRT_Timer |-> NewTimer]
    /\ timer_list = Created
    /\ age = [x \in JRT_Timer |-> 0]

-----------------------------------------------------------------------------
(* Waking and running the service task.                                    *)

service == timer_service_task_index

task_timer_service_wake(T) ==
    IF T[service].state = "BLOCKED" /\ T[service].wait_kind = "TIMER_SERVICE"
    THEN [T EXCEPT ![service] = task_wait_end(@, 1)]
    ELSE T

Pending(x) == timer[x].callback /\ timer[x].expirations # 0

ServiceLoop == Thread(service) /\ pc[service] \in {"app", "woken"}

\* kernel_timer_service_claim finds work: the first timer of the list.
ServiceClaim ==
    /\ ServiceLoop
    /\ \E i \in DOMAIN timer_list :
          /\ Pending(timer_list[i])
          /\ \A j \in 1 .. i - 1 : ~Pending(timer_list[j])
          /\ timer' = [timer EXCEPT ![timer_list[i]].expirations = @ - 1]
    /\ pc' = [pc EXCEPT ![service] = "callback"]
    /\ UNCHANGED <<tasks, current, ticks, pendsv, call, timer_list, age>>

(* Mutant: the service looks at the head of the list only.                 *)
ServiceBlockHead ==
    /\ ServiceLoop
    /\ timer_list = << >> \/ ~Pending(timer_list[1])
    /\ tasks' = [tasks EXCEPT ![service] =
           task_wait_begin(@, timer_service_wait_object, "TIMER_SERVICE",
                           ticks, JRT_WAIT_FOREVER)]
    /\ pc' = [pc EXCEPT ![service] = "yield"]
    /\ UNCHANGED <<current, ticks, pendsv, call, timerVars>>

\* It finds none: task_timer_service_block_locked.
ServiceBlock ==
    /\ ServiceLoop
    /\ \A i \in DOMAIN timer_list : ~Pending(timer_list[i])
    /\ tasks' = [tasks EXCEPT ![service] =
           task_wait_begin(@, timer_service_wait_object, "TIMER_SERVICE",
                           ticks, JRT_WAIT_FOREVER)]
    /\ pc' = [pc EXCEPT ![service] = "yield"]
    /\ UNCHANGED <<current, ticks, pendsv, call, timerVars>>

CallbackReturn ==
    /\ Thread(service)
    /\ pc[service] = "callback"
    /\ pc' = [pc EXCEPT ![service] = "app"]
    /\ UNCHANGED <<tasks, current, ticks, pendsv, call, timerVars>>

ServiceStep ==
    \/ ServiceClaim
    \/ ServiceBlock
    \/ CallbackReturn
    \/ ArchYield(service) /\ UNCHANGED timerVars

-----------------------------------------------------------------------------
(* Operations of tasks and of callbacks.                                   *)

Client(t) ==
    \/ InApp(t)
    \/ t = service /\ Thread(t) /\ pc[t] = "callback"

(* Mutant: the new head does not point to the rest of the list.            *)
LinkDropsRest(x) ==
    IF Contains(timer_list, x) THEN timer_list ELSE <<x>>

timer_link(x) ==
    IF Contains(timer_list, x) THEN timer_list ELSE <<x>> \o timer_list

\* The fields of a timer are written and the timer is linked.
Configured(x, fields) ==
    /\ timer' = [timer EXCEPT ![x] = fields]
    /\ age' = [age EXCEPT ![x] = 0]
    /\ timer_list' = timer_link(x)
    /\ UNCHANGED taskVars

(* Mutant: a timer that was periodic keeps its period.                     *)
TimerStartKeepsPeriod(t, x, delay) ==
    /\ Client(t)
    /\ Configured(x, [timer[x] EXCEPT !.deadline = TickAdd(ticks, delay),
                                      !.reload_ticks = delay,
                                      !.periodic = FALSE,
                                      !.active = TRUE])

TimerStart(t, x, delay) ==
    /\ Client(t)
    /\ Configured(x, [timer[x] EXCEPT !.deadline = TickAdd(ticks, delay),
                                      !.period = 0,
                                      !.reload_ticks = delay,
                                      !.periodic = FALSE,
                                      !.active = TRUE])

TimerStartPeriodic(t, x, period) ==
    /\ Client(t)
    /\ period # 0
    /\ Configured(x, [timer[x] EXCEPT !.deadline = TickAdd(ticks, period),
                                      !.period = period,
                                      !.reload_ticks = period,
                                      !.periodic = TRUE,
                                      !.active = TRUE])

(* Mutant: a restart leaves the old deadline.                              *)
TimerRestartStale(t, x) ==
    /\ Client(t)
    /\ timer[x].reload_ticks # 0
    /\ Configured(x, [timer[x] EXCEPT !.active = TRUE])

TimerRestart(t, x) ==
    /\ Client(t)
    /\ timer[x].reload_ticks # 0
    /\ Configured(x, [timer[x] EXCEPT
                         !.deadline = TickAdd(ticks, timer[x].reload_ticks),
                         !.active = TRUE])

\* A timer that is created again while tasks run is reset and stays linked.
TimerCreateStatic(t, x) == Client(t) /\ Configured(x, NewTimer)

TimerStop(t, x) ==
    /\ Client(t)
    /\ timer' = [timer EXCEPT ![x].active = FALSE]
    /\ age' = [age EXCEPT ![x] = 0]
    /\ UNCHANGED <<taskVars, timer_list>>

(* Mutant: a callback set late does not wake the service.                  *)
TimerSetCallbackQuiet(t, x, callback) ==
    /\ Client(t)
    /\ timer' = [timer EXCEPT ![x].callback = callback]
    /\ UNCHANGED <<taskVars, timer_list, age>>

TimerSetCallback(t, x, callback) ==
    /\ Client(t)
    /\ timer' = [timer EXCEPT ![x].callback = callback]
    /\ IF callback /\ timer[x].expirations # 0
       THEN tasks' = task_timer_service_wake(tasks) /\ pendsv' = 1
       ELSE UNCHANGED <<tasks, pendsv>>
    /\ UNCHANGED <<current, ticks, pc, call, timer_list, age>>

\* JRT_TimerTakeExpirations, and JRT_TimerDispatch of a timer with a callback:
\* the calls it then makes are application code.
TimerTakeExpirations(t, x) ==
    /\ Client(t)
    /\ timer' = [timer EXCEPT ![x].expirations = 0]
    /\ UNCHANGED <<taskVars, timer_list, age>>

TimerDispatch(t, x) == timer[x].callback /\ TimerTakeExpirations(t, x)

-----------------------------------------------------------------------------
(* The tick: kernel_timer_tick, then the tasks.                            *)

\* (int32_t)(now - deadline) >= 0
Reached(now, deadline) == 2 * TickSub(now, deadline) < TICK_MOD

Due(x, now) ==
    /\ Contains(timer_list, x)
    /\ timer[x].active
    /\ Reached(now, timer[x].deadline)

Expired(x) ==
    [timer[x] EXCEPT
        !.expirations = (@ + 1) % EXPIRE_MOD,
        !.deadline = IF timer[x].periodic THEN TickAdd(@, timer[x].period)
                                          ELSE @,
        !.active = timer[x].periodic]

TimerSysTick ==
    /\ SysTickClock
    /\ LET due == {x \in JRT_Timer : Due(x, ticks')}
       IN  /\ timer' = [x \in JRT_Timer |-> IF x \in due THEN Expired(x)
                                                         ELSE timer[x]]
           /\ age' = [x \in JRT_Timer |->
                        IF x \in due THEN 0
                        ELSE IF timer[x].active /\ age[x] < TICK_MOD
                             THEN age[x] + 1 ELSE age[x]]
           /\ tasks' = tick_tasks(IF \E x \in due : timer[x].callback
                                  THEN task_timer_service_wake(tasks)
                                  ELSE tasks, ticks')
    /\ UNCHANGED timer_list

-----------------------------------------------------------------------------
Operations(t, x) ==
    \/ \E d \in TimerDelay[x] :
          TimerStart(t, x, d) \/ TimerStartPeriodic(t, x, d)
    \/ TimerRestart(t, x)
    \/ TimerCreateStatic(t, x)
    \/ TimerStop(t, x)
    \/ \E callback \in BOOLEAN : TimerSetCallback(t, x, callback)
    \/ TimerTakeExpirations(t, x)
    \/ TimerDispatch(t, x)

Next ==
    \/ PendSV /\ UNCHANGED timerVars
    \/ TimerSysTick
    \/ Services /\ UNCHANGED timerVars
    \/ ServiceStep
    \/ \E t \in ApplicationTask \cup {service}, x \in JRT_Timer :
          Operations(t, x)

Safety == Init /\ [][Next]_vars

\* The hardware as in module Semaphore; the service task executes its next
\* instruction when it gets the core again and again, and callbacks return
\* (docs/RTOS.md, "Timer callbacks must remain bounded").
Fairness ==
    /\ WF_vars(PendSV /\ UNCHANGED timerVars)
    /\ WF_vars(TimerSysTick)
    /\ SF_vars(ServiceStep)

Spec == Safety /\ Fairness

-----------------------------------------------------------------------------
(* Properties.                                                             *)

(***************************************************************************)
(* The service never sleeps over work: while it is BLOCKED no timer has    *)
(* both a callback and an expiration that was not executed, whatever order *)
(* the tick, SetCallback, the claims and the block came in.                *)
(***************************************************************************)
ServiceSeesWork ==
    tasks[service].state = "BLOCKED" => \A x \in JRT_Timer : ~Pending(x)

\* Ticks from arming to expiry; a delay of 0 expires at the next tick.
Span(x) == IF timer[x].reload_ticks = 0 THEN 1 ELSE timer[x].reload_ticks

(***************************************************************************)
(* An active timer is never overdue: after a tick fewer ticks than its     *)
(* delay or period have gone by since it was armed or last expired, across *)
(* wraparound and across starts and restarts that race with expiry.        *)
(***************************************************************************)
NoOverdueTimer ==
    \A x \in JRT_Timer : timer[x].active => age[x] < Span(x)

(***************************************************************************)
(* No timer expires early: the tick that records an expiration completes   *)
(* the delay or period of an active timer, counted in real ticks from the  *)
(* latest start or restart, so that a later operation controls the         *)
(* deadline (docs/RTOS.md, "the later operation controls the timer's next  *)
(* deadline").                                                             *)
(***************************************************************************)
ExpiryIsPunctual ==
    [][\A x \in JRT_Timer :
        timer'[x].expirations = (timer[x].expirations + 1) % EXPIRE_MOD
          /\ ticks' # ticks =>
            timer[x].active /\ age[x] + 1 = Span(x)]_vars

(***************************************************************************)
(* timer_invariant_check, which runs at every tick, never halts the        *)
(* system: the list has no cycle, and a timer is periodic exactly if it    *)
(* has a period.                                                           *)
(***************************************************************************)
TimerChecksHold ==
    /\ TypeOK
    /\ \A i, j \in DOMAIN timer_list :
          timer_list[i] = timer_list[j] => i = j
    /\ \A x \in JRT_Timer : timer[x].periodic <=> timer[x].period # 0

(***************************************************************************)
(* Work is done: if no task outranks the service, an expiration of a timer *)
(* with a callback is followed by a callback, unless tasks take the        *)
(* expirations or the callbacks of all timers away.                        *)
(***************************************************************************)
PendingIsServed ==
    (\E x \in JRT_Timer : Pending(x)) ~>
        (pc[service] = "callback" \/ \A x \in JRT_Timer : ~Pending(x))
=============================================================================
