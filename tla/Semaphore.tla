----------------------------- MODULE Semaphore ------------------------------
(***************************************************************************)
(* Binary semaphores (kernel/sync.c) on top of the task module: tasks take *)
(* with a timeout and give, interrupt handlers give.  A give hands the     *)
(* token to the best waiter without making it available, and a woken       *)
(* waiter learns from wait_result alone whether it has the token.          *)
(***************************************************************************)
EXTENDS Task, FiniteSets

VARIABLES
    available,  \* semaphore->available
    owed,       \* history: tokens given and not yet taken out by a task
    waited      \* history: ticks since a task entered its call (saturating)

semVars == <<available, owed, waited>>
vars == <<tasks, current, ticks, pendsv, pc, call, available, owed, waited>>

Bit == {0, 1}

TypeOK ==
    /\ TaskTypeOK
    /\ available \in [Object -> Bit]
    /\ owed \in [Object -> Int]
    /\ waited \in [Task -> 0 .. TICK_MOD]

\* JRT_SemaphoreCreateBinaryStatic runs before the kernel starts.
Init ==
    /\ TaskInit
    /\ available \in [Object -> Bit]
    /\ owed = available
    /\ waited = [t \in Task |-> 0]

-----------------------------------------------------------------------------
(* JRT_SemaphoreTake.                                                      *)

TakeEnter(t, s, timeout) ==
    /\ Enter(t, "take", s, timeout)
    /\ UNCHANGED semVars

ResetWaited(t) == waited' = [waited EXCEPT ![t] = 0]

TakeAvailable(t) ==
    LET s == call[t].object
    IN  /\ Attempt(t, "take")
        /\ available[s] = 1
        /\ available' = [available EXCEPT ![s] = 0]
        /\ owed' = [owed EXCEPT ![s] = @ - 1]
        /\ Return(t)
        /\ ResetWaited(t)
        /\ UNCHANGED tasks

TakeGiveUp(t) ==
    /\ Attempt(t, "take")
    /\ available[call[t].object] = 0
    /\ GiveUp(t)
    /\ ResetWaited(t)
    /\ UNCHANGED <<available, owed>>

(* Mutant: blocks although the token became available on the way.          *)
TakeBlockUnchecked(t) ==
    /\ Attempt(t, "take")
    /\ call[t].timeout # 0
    /\ Block(t, "SEMAPHORE", tasks)
    /\ UNCHANGED semVars

TakeBlock(t) ==
    /\ Attempt(t, "take")
    /\ available[call[t].object] = 0
    /\ call[t].timeout # 0
    /\ Block(t, "SEMAPHORE", tasks)
    /\ UNCHANGED semVars

\* Behind arch_yield: wait_result is the answer of the call.
TakeReturn(t) ==
    /\ Woken(t, "take")
    /\ owed' = [owed EXCEPT ![call[t].object] = @ - tasks[t].wait_result]
    /\ Return(t)
    /\ ResetWaited(t)
    /\ UNCHANGED <<tasks, available>>

-----------------------------------------------------------------------------
(* Giving: wake the best waiter, or make the token available.              *)

Give(s) ==
    /\ tasks' = task_wake(tasks, s, "SEMAPHORE")
    /\ available' = IF tasks' = tasks THEN [available EXCEPT ![s] = 1]
                                      ELSE available
    /\ owed' = [owed EXCEPT ![s] = IF available[s] = 1 THEN @ ELSE @ + 1]
    /\ UNCHANGED <<current, ticks, pc, call, waited>>

\* JRT_SemaphoreGive does not request a switch: a woken task of a higher
\* priority runs at the next scheduling point.
SemaphoreGive(t, s) == InApp(t) /\ Give(s) /\ UNCHANGED pendsv

SemaphoreGiveFromISR(s) == Give(s) /\ pendsv' = 1

-----------------------------------------------------------------------------
CountWaited ==
    waited' = [t \in Task |-> IF pc[t] # "app" /\ waited[t] < TICK_MOD
                              THEN waited[t] + 1 ELSE waited[t]]

ClockTick ==
    /\ SysTick
    /\ CountWaited
    /\ UNCHANGED <<available, owed>>

\* The rest of a call a task is inside of.
Continue(t) ==
    \/ TakeAvailable(t)
    \/ TakeGiveUp(t)
    \/ TakeBlock(t)
    \/ ArchYield(t) /\ UNCHANGED semVars
    \/ TakeReturn(t)

Next ==
    \/ PendSV /\ UNCHANGED semVars
    \/ ClockTick
    \/ Services /\ UNCHANGED semVars
    \/ \E t \in ApplicationTask :
          \/ \E s \in Object, timeout \in Timeout : TakeEnter(t, s, timeout)
          \/ Continue(t)
          \/ \E s \in Object : SemaphoreGive(t, s)
    \/ \E s \in Object : SemaphoreGiveFromISR(s)

Safety == Init /\ [][Next]_vars

\* The clock and the exceptions are hardware; a task that gets the core again
\* and again executes its next instruction (nothing is assumed of a task that
\* is never scheduled, and nothing of the application's own code).
Fairness ==
    /\ WF_vars(PendSV /\ UNCHANGED semVars)
    /\ WF_vars(ClockTick)
    /\ \A t \in ApplicationTask : SF_vars(Continue(t))

Spec == Safety /\ Fairness

-----------------------------------------------------------------------------
(* Properties.                                                             *)

(***************************************************************************)
(* No lost wakeup: while a task is blocked on a semaphore the token is not *)
(* available, whatever interrupt came between the test and the block.      *)
(***************************************************************************)
NoLostWakeup ==
    \A t \in Task :
        (tasks[t].state = "BLOCKED" /\ tasks[t].wait_kind = "SEMAPHORE") =>
            available[tasks[t].wait_object] = 0

\* Tasks that were handed the token of s and have not returned yet.
Granted(s) ==
    {t \in Task : /\ pc[t] \in {"yield", "woken"}
                  /\ call[t].object = s
                  /\ tasks[t].state # "BLOCKED"
                  /\ tasks[t].wait_result = 1}

(***************************************************************************)
(* Tokens are conserved: every token given and not yet taken is either     *)
(* available or on its way to exactly one woken task; a give and a timeout *)
(* in the same tick neither lose nor duplicate it.                         *)
(***************************************************************************)
TokenConservation ==
    \A s \in Object : owed[s] = available[s] + Cardinality(Granted(s))

(***************************************************************************)
(* A take that returns without the token had a finite timeout and lasted   *)
(* at least that long, counted from the entry of the call and across       *)
(* wraparound, whether it gave up at once or was woken by the tick; a take *)
(* with JRT_WAIT_FOREVER returns with the token only.                      *)
(***************************************************************************)
TimeoutNotEarly ==
    [][\A t \in Task :
        (pc[t] # "app" /\ pc'[t] = "app" /\ owed' = owed) =>
            /\ call[t].timeout # JRT_WAIT_FOREVER
            /\ waited[t] >= call[t].timeout]_vars

\* A task inside a call is taking a semaphore, and a task that is BLOCKED on
\* one is behind the critical section of its own call.
CallsMatchWaits ==
    /\ \A t \in Task : pc[t] # "app" =>
          call[t].op = "take" /\ call[t].object \in Object
    /\ \A t \in Task :
          (tasks[t].state = "BLOCKED" /\ tasks[t].wait_kind = "SEMAPHORE") =>
              /\ pc[t] \in {"yield", "woken"}
              /\ tasks[t].wait_object = call[t].object

\* The deadline of a call against the ticks that really went by, and the copy
\* of the deadline in the task table.
Measured(t) ==
    /\ pc[t] = "app" => waited[t] = 0
    /\ pc[t] # "app" =>
          /\ call[t].deadline = task_wait_deadline(call[t].deadline.start,
                                                   call[t].timeout)
          /\ waited[t] >= TickSub(ticks, call[t].deadline.start)
    /\ pc[t] \in {"yield", "woken"} =>
          IF tasks[t].state = "BLOCKED"
          THEN call[t].deadline = [start   |-> tasks[t].wait_start,
                                   tick    |-> tasks[t].wait_deadline,
                                   forever |-> tasks[t].wait_forever]
          ELSE tasks[t].wait_result = 0 =>
                  /\ call[t].timeout # JRT_WAIT_FOREVER
                  /\ waited[t] >= call[t].timeout

WaitsMeasured == \A t \in Task : Measured(t)

(***************************************************************************)
(* The inductive invariant behind the safety properties: the invariant of  *)
(* the task module, and how a wait in the table and the call of the task   *)
(* belong together.                                                        *)
(***************************************************************************)
SemaphoreInv ==
    /\ TypeOK
    /\ TaskInv
    /\ CallsMatchWaits
    /\ NoLostWakeup
    /\ TokenConservation

(***************************************************************************)
(* A take with a finite timeout by the task of the highest priority        *)
(* returns, if no other task suspends it.                                  *)
(***************************************************************************)
FiniteTakeReturns ==
    \A t \in TopTask :
        (pc[t] # "app" /\ call[t].timeout # JRT_WAIT_FOREVER) ~>
            (pc[t] = "app" \/ tasks[t].state = "SUSPENDED")
=============================================================================
