------------------------------ MODULE Periodic ------------------------------
(***************************************************************************)
(* Periodic tasks (kernel/task.c): JRT_TaskDelayUntil advances the         *)
(* caller's wake time by one period, reads the clock, and sleeps for the   *)
(* difference in a separate supervisor call.  A tick, or a whole           *)
(* preemption, can come between the two.                                   *)
(***************************************************************************)
EXTENDS Task

CONSTANTS
    PeriodicTask,  \* the tasks that call JRT_TaskDelayUntil
    Period         \* period_ticks given to it

HALF == TICK_MOD \div 2

\* The signed comparison of the code sees half of the counter's range.
ASSUME PeriodicAssumption ==
    /\ PeriodicTask \subseteq ApplicationTask
    /\ Period \subseteq 0 .. HALF
    /\ TICK_MOD % 2 = 0

VARIABLES
    previous_wake,  \* the variable each task passes by address
    lag,            \* history: ticks since previous_wake, without wraparound
    slip            \* history: ticks since the clock was read; -1 at rest

periodVars == <<previous_wake, lag, slip>>

\* The task is half the range behind: its wake time now reads as a future one.
LOST == HALF

PeriodicTypeOK ==
    /\ TaskTypeOK
    /\ previous_wake \in [PeriodicTask -> Tick]
    /\ lag \in [PeriodicTask -> -HALF .. LOST]
    /\ slip \in [PeriodicTask -> -1 .. LOST]

PeriodicInit ==
    /\ TaskInit
    /\ previous_wake = [t \in PeriodicTask |-> ticks]
    /\ lag = [t \in PeriodicTask |-> 0]
    /\ slip = [t \in PeriodicTask |-> -1]

-----------------------------------------------------------------------------
(* Mutant: an absolute comparison of the two tick counts.                  *)
TickReachedAbsolute(now, deadline) == now >= deadline

\* (int32_t)(now - deadline) >= 0
JRT_KernelTickReached(now, deadline) == TickSub(now, deadline) < HALF

\* The application starts its period over: *previous_wake is the tick count.
PeriodStart(t) ==
    /\ InApp(t)
    /\ previous_wake' = [previous_wake EXCEPT ![t] = ticks]
    /\ lag' = [lag EXCEPT ![t] = 0]
    /\ UNCHANGED <<taskVars, slip>>

\* Up to the clock read and the comparison; a task that is late returns.
DelayUntil(t, period) ==
    LET next_wake == TickAdd(previous_wake[t], period)
    IN  /\ InApp(t)
        /\ previous_wake' = [previous_wake EXCEPT ![t] = next_wake]
        /\ lag' = [lag EXCEPT ![t] = IF @ = LOST THEN @ ELSE @ - period]
        /\ IF JRT_KernelTickReached(ticks, next_wake)
           THEN UNCHANGED <<taskVars, slip>>
           ELSE /\ pc' = [pc EXCEPT ![t] = "attempt"]
                /\ call' = [call EXCEPT ![t] =
                       [NoCall EXCEPT !.op = "delay_until",
                                      !.timeout = TickSub(next_wake, ticks)]]
                /\ slip' = [slip EXCEPT ![t] = 0]
                /\ UNCHANGED <<tasks, current, ticks, pendsv>>

\* JRT_TaskDelay(next_wake - now): the difference may be stale by now.
DelayUntilSleep(t) ==
    /\ Attempt(t, "delay_until")
    /\ tasks' = sleep_current(tasks, t, call[t].timeout)
    /\ pendsv' = 1
    /\ pc' = [pc EXCEPT ![t] = "app"]
    /\ call' = [call EXCEPT ![t] = NoCall]
    /\ UNCHANGED <<current, ticks, periodVars>>

-----------------------------------------------------------------------------
Wakes(t) == tasks[t].state = "SLEEPING" /\ tasks'[t].state = "READY"

Later(n) == IF n < LOST THEN n + 1 ELSE LOST

ClockTick ==
    /\ SysTick
    /\ lag' = [t \in PeriodicTask |-> Later(lag[t])]
    /\ slip' = [t \in PeriodicTask |->
                   CASE pc[t] = "attempt" -> Later(slip[t])
                     [] pc[t] # "attempt" /\ Wakes(t) -> -1
                     [] OTHER -> slip[t]]
    /\ UNCHANGED previous_wake

PeriodicCall(t) ==
    \/ PeriodStart(t)
    \/ \E period \in Period : DelayUntil(t, period)
    \/ DelayUntilSleep(t)

-----------------------------------------------------------------------------
(***************************************************************************)
(* A periodic task is punctual across wraparound of the counter: its code  *)
(* runs again only when the wake time has come, and a sleep of             *)
(* JRT_TaskDelayUntil ends late by just the ticks that came between the    *)
(* clock read and the sleep, however late the task was in the periods      *)
(* before: the error of a period is not carried to the next.  It is said   *)
(* of a task that is less than half the counter's range behind.            *)
(***************************************************************************)
DelayUntilPunctual ==
    [][\A t \in PeriodicTask :
        /\ (current' = t /\ pendsv' = 0 /\ pc'[t] = "app") => lag'[t] >= 0
        /\ (Wakes(t) /\ slip[t] # -1 /\ lag'[t] # LOST) =>
               lag'[t] = slip[t]]_<<taskVars, periodVars>>
=============================================================================
