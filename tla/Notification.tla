---------------------------- MODULE Notification ----------------------------
(***************************************************************************)
(* Task notifications (kernel/task.c): a number per task that notifiers    *)
(* add to and that the task itself takes.  Test, block and deadline are in *)
(* one critical section; a woken task reads the number again, so what it   *)
(* gets is the sum of all that was sent until then.                        *)
(***************************************************************************)
EXTENDS Task

CONSTANTS
    NOTIFY_MOD,    \* 2^32 in the code: the range of notification_value
    NotifyTarget,  \* identifiers given to JRT_TaskNotify
    NotifyValue    \* values given to JRT_TaskNotify

\* A task waits on its own task_t.
ASSUME NotificationAssumption ==
    /\ ApplicationTask \subseteq Object
    /\ NOTIFY_MOD \in Nat \ {0, 1}
    /\ NotifyValue \subseteq 0 .. NOTIFY_MOD - 1

VARIABLES
    notification_value,  \* task_t.notification_value
    waited               \* history: ticks since a task blocked (saturating)

noteVars == <<notification_value, waited>>
vars == <<tasks, current, ticks, pendsv, pc, call, notification_value, waited>>

TypeOK ==
    /\ TaskTypeOK
    /\ notification_value \in [Task -> 0 .. NOTIFY_MOD - 1]
    /\ waited \in [Task -> 0 .. TICK_MOD]

\* task_wait_reset clears the value of every task in JRT_KernelInit.
Init ==
    /\ TaskInit
    /\ notification_value = [t \in Task |-> 0]
    /\ waited = [t \in Task |-> 0]

-----------------------------------------------------------------------------
(* JRT_TaskNotifyTake.                                                     *)

Clear(t) == notification_value' = [notification_value EXCEPT ![t] = 0]

TakeNow(t) ==
    /\ InApp(t)
    /\ notification_value[t] # 0
    /\ Clear(t)
    /\ UNCHANGED <<taskVars, waited>>

(* Mutant: blocks whatever was sent before.                                *)
TakeBlockUnchecked(t, timeout) ==
    /\ InApp(t)
    /\ timeout # 0
    /\ BlockNow(t, "notify_take", t, "NOTIFICATION", timeout)
    /\ waited' = [waited EXCEPT ![t] = 0]
    /\ UNCHANGED notification_value

\* With a zero timeout and no value the call changes nothing.
TakeBlock(t, timeout) ==
    /\ InApp(t)
    /\ notification_value[t] = 0
    /\ timeout # 0
    /\ BlockNow(t, "notify_take", t, "NOTIFICATION", timeout)
    /\ waited' = [waited EXCEPT ![t] = 0]
    /\ UNCHANGED notification_value

Take(t, timeout) == TakeNow(t) \/ TakeBlock(t, timeout)

\* Behind arch_yield: the value decides, not wait_result.
TakeWoken(t) ==
    /\ Woken(t, "notify_take")
    /\ Clear(t)
    /\ Return(t)
    /\ waited' = [waited EXCEPT ![t] = 0]
    /\ UNCHANGED tasks

-----------------------------------------------------------------------------
(* task_notify_common.  The switch is requested behind the critical        *)
(* section; every interrupt that could come in between requests one too.   *)

(* Mutant: the waiter is woken only if a value was there before.           *)
NotifiedStale(id, value) ==
    /\ id \in Task
    /\ notification_value' =
           [notification_value EXCEPT ![id] = (@ + value) % NOTIFY_MOD]
    /\ tasks' = IF /\ tasks[id].state = "BLOCKED"
                   /\ tasks[id].wait_kind = "NOTIFICATION"
                   /\ notification_value[id] # 0
                THEN [tasks EXCEPT ![id] = task_wait_end(@, 1)]
                ELSE tasks
    /\ pendsv' = 1
    /\ UNCHANGED <<current, ticks, pc, call, waited>>

Notified(id, value) ==
    /\ id \in Task
    /\ notification_value' =
           [notification_value EXCEPT ![id] = (@ + value) % NOTIFY_MOD]
    /\ tasks' = IF /\ tasks[id].state = "BLOCKED"
                   /\ tasks[id].wait_kind = "NOTIFICATION"
                THEN [tasks EXCEPT ![id] = task_wait_end(@, 1)]
                ELSE tasks
    /\ pendsv' = 1
    /\ UNCHANGED <<current, ticks, pc, call, waited>>

TaskNotify(t, id, value) == InApp(t) /\ Notified(id, value)

TaskNotifyFromISR(id, value) == Notified(id, value)

Notify(id, value) ==
    \/ \E t \in ApplicationTask : TaskNotify(t, id, value)
    \/ TaskNotifyFromISR(id, value)

-----------------------------------------------------------------------------
ClockTick ==
    /\ SysTick
    /\ waited' = [t \in Task |-> IF pc[t] # "app" /\ waited[t] < TICK_MOD
                                 THEN waited[t] + 1 ELSE waited[t]]
    /\ UNCHANGED notification_value

Continue(t) ==
    \/ ArchYield(t) /\ UNCHANGED noteVars
    \/ TakeWoken(t)

Next ==
    \/ PendSV /\ UNCHANGED noteVars
    \/ ClockTick
    \/ Services /\ UNCHANGED noteVars
    \/ \E t \in ApplicationTask :
          \/ \E timeout \in Timeout : Take(t, timeout)
          \/ Continue(t)
    \/ \E id \in NotifyTarget, v \in NotifyValue : Notify(id, v)

Safety == Init /\ [][Next]_vars

\* As in module Semaphore.
Fairness ==
    /\ WF_vars(PendSV /\ UNCHANGED noteVars)
    /\ WF_vars(ClockTick)
    /\ \A t \in ApplicationTask : SF_vars(Continue(t))

Spec == Safety /\ Fairness

-----------------------------------------------------------------------------
(* Properties.                                                             *)

(***************************************************************************)
(* No lost notification: a task that is BLOCKED waiting for a notification *)
(* has not been sent any, whatever came between its test and its block.    *)
(***************************************************************************)
NoLostNotification ==
    /\ TypeOK
    /\ \A t \in Task :
          (tasks[t].state = "BLOCKED" /\ tasks[t].wait_kind = "NOTIFICATION")
              => notification_value[t] = 0

\* The step in which task t comes back from a take that had to wait.
Returns(t) == pc[t] # "app" /\ pc'[t] = "app"

(***************************************************************************)
(* A take comes back empty-handed for two reasons only: its finite timeout *)
(* went by, or it was notified and the values sent add up to 0 modulo      *)
(* NOTIFY_MOD: with JRT_WAIT_FOREVER only the second, which is a sum that  *)
(* wraps or a value of 0.  No deadline fires early across wraparound.      *)
(***************************************************************************)
EmptyTakeExplained ==
    [][\A t \in Task :
        (Returns(t) /\ notification_value[t] = 0) =>
            \/ tasks[t].wait_result = 1
            \/ /\ call[t].timeout # JRT_WAIT_FOREVER
               /\ waited[t] >= call[t].timeout]_vars

(***************************************************************************)
(* What was sent to a waiting task of the highest priority is delivered:   *)
(* its take returns, unless another task suspends it.                      *)
(***************************************************************************)
NotificationDelivered ==
    \A t \in TopTask :
        (pc[t] # "app" /\ notification_value[t] # 0) ~>
            (pc[t] = "app" \/ tasks[t].state = "SUSPENDED")
=============================================================================
