------------------------------- MODULE Mutex --------------------------------
(***************************************************************************)
(* Recursive mutexes with priority inheritance (kernel/sync.c and the      *)
(* priority chain functions of kernel/task.c).  Locking a mutex another    *)
(* task owns raises the owner, and whoever that owner waits for in turn;   *)
(* unlocking and timing out recompute what is left of the boost.           *)
(***************************************************************************)
EXTENDS Task

CONSTANTS
    MaxRecursion,  \* bound on the nesting of each mutex
    LockCall       \* the lock calls <<mutex, timeout>> each task makes

ASSUME MutexAssumption ==
    /\ MaxRecursion \in [Object -> Nat \ {0}]
    /\ LockCall \in [ApplicationTask -> SUBSET (Object \X Timeout)]

VARIABLES
    mutex,  \* JRT_Mutex_t of every mutex
    depth   \* history: successful locks of a task it has not unlocked

mutexVars == <<mutex, depth>>
vars == <<tasks, current, ticks, pendsv, pc, call, mutex, depth>>

NoOwner == NoTask   \* UINT32_MAX: no task index

JRT_Mutex == [locked : {0, 1}, owner : Task \cup {NoOwner}, recursion : Nat]

TypeOK ==
    /\ TaskTypeOK
    /\ mutex \in [Object -> JRT_Mutex]
    /\ \A m \in Object : mutex[m].recursion <= MaxRecursion[m]
    /\ depth \in [Task -> [Object -> Nat]]

Init ==
    /\ TaskInit
    /\ mutex = [m \in Object |->
                    [locked |-> 0, owner |-> NoOwner, recursion |-> 0]]
    /\ depth = [t \in Task |-> [m \in Object |-> 0]]

-----------------------------------------------------------------------------
(* Priority inheritance.  T is a task table, M the mutexes.                *)

\* The owner task id is blocked behind, or NoOwner.
BlockedBehind(T, M, id) ==
    IF /\ T[id].state = "BLOCKED"
       /\ T[id].wait_kind = "MUTEX"
       /\ M[T[id].wait_object].locked = 1
       /\ M[T[id].wait_object].owner # id
    THEN M[T[id].wait_object].owner
    ELSE NoOwner

(* Mutant: only the direct owner is raised.                                *)
InheritDirect(T, M, owner, priority) ==
    [T EXCEPT ![owner].priority = IF @ < priority THEN priority ELSE @]

\* One turn of the loop: s is the table and the task it has come to.
Raise(M, priority, s) ==
    IF s.id = NoOwner THEN s
    ELSE [T  |-> [s.T EXCEPT ![s.id].priority =
                      IF @ < priority THEN priority ELSE @],
          id |-> BlockedBehind(s.T, M, s.id)]

task_inherit_priority(T, M, owner, priority) ==
    LET chain[d \in 0 .. task_count] ==
            IF d = 0 THEN [T |-> T, id |-> owner]
            ELSE Raise(M, priority, chain[d - 1])
    IN  chain[task_count].T

\* Priorities of the tasks blocked on a mutex that task id owns.
WaiterPriority(T, M, id) ==
    {T[w].priority : w \in {w \in Task : /\ T[w].state = "BLOCKED"
                                         /\ T[w].wait_kind = "MUTEX"
                                         /\ M[T[w].wait_object].locked = 1
                                         /\ M[T[w].wait_object].owner = id}}

EffectivePriority(T, M, id) ==
    CHOOSE p \in {base_priority[id]} \cup WaiterPriority(T, M, id) :
        \A q \in {base_priority[id]} \cup WaiterPriority(T, M, id) : q <= p

(* Mutant: the boost is kept until the next lock.                          *)
RestoreNothing(T, M, id) == T

task_restore_priority(T, M, id) ==
    [T EXCEPT ![id].priority = EffectivePriority(T, M, id)]

\* Follows the chain of owners for as long as a priority changes.
Restore(M, s) ==
    IF s.id = NoOwner THEN s
    ELSE LET R == task_restore_priority(s.T, M, s.id)
         IN  [T  |-> R,
              id |-> IF R[s.id].priority = s.T[s.id].priority
                     THEN NoOwner ELSE BlockedBehind(R, M, s.id)]

restore_priority_chain(T, M, start) ==
    LET chain[d \in 0 .. task_count] ==
            IF d = 0 THEN [T |-> T, id |-> start] ELSE Restore(M, chain[d - 1])
    IN  chain[task_count].T

-----------------------------------------------------------------------------
(* JRT_MutexLock.                                                          *)

LockEnter(t, m, timeout) ==
    /\ Enter(t, "lock", m, timeout)
    /\ UNCHANGED mutexVars

Acquired(t, m) == depth' = [depth EXCEPT ![t][m] = @ + 1]

LockFree(t) ==
    LET m == call[t].object
    IN  /\ Attempt(t, "lock")
        /\ mutex[m].locked = 0
        /\ mutex' = [mutex EXCEPT ![m] =
                         [locked |-> 1, owner |-> t, recursion |-> 1]]
        /\ Acquired(t, m)
        /\ Return(t)
        /\ UNCHANGED tasks

LockAgain(t) ==
    LET m == call[t].object
    IN  /\ Attempt(t, "lock")
        /\ mutex[m].locked = 1 /\ mutex[m].owner = t
        /\ mutex[m].recursion < MaxRecursion[m]
        /\ mutex' = [mutex EXCEPT ![m].recursion = @ + 1]
        /\ Acquired(t, m)
        /\ Return(t)
        /\ UNCHANGED tasks

Contended(t) ==
    /\ Attempt(t, "lock")
    /\ mutex[call[t].object].locked = 1
    /\ mutex[call[t].object].owner # t

LockTry(t) ==
    /\ Contended(t)
    /\ call[t].timeout = 0
    /\ Return(t)
    /\ UNCHANGED <<tasks, mutexVars>>

\* The owner chain is raised before the deadline is looked at.
Boosted(t) ==
    task_inherit_priority(tasks, mutex, mutex[call[t].object].owner,
                          tasks[t].priority)

LockTooLate(t) ==
    /\ Contended(t)
    /\ call[t].timeout # 0
    /\ DeadlineElapsed(t)
    /\ tasks' = Boosted(t)
    /\ Return(t)
    /\ UNCHANGED mutexVars

LockBlock(t) ==
    /\ Contended(t)
    /\ call[t].timeout # 0
    /\ Block(t, "MUTEX", Boosted(t))
    /\ UNCHANGED mutexVars

\* The unlocking task has made this one the owner already.
LockReturn(t) ==
    /\ Woken(t, "lock")
    /\ depth' = [depth EXCEPT ![t][call[t].object] = @ + tasks[t].wait_result]
    /\ Return(t)
    /\ UNCHANGED <<tasks, mutex>>

-----------------------------------------------------------------------------
(* JRT_MutexUnlock.                                                        *)

Released(t, m) == depth' = [depth EXCEPT ![t][m] = @ - 1]

UnlockInner(t, m) ==
    /\ InApp(t)
    /\ mutex[m].locked = 1 /\ mutex[m].owner = t
    /\ mutex[m].recursion > 1
    /\ mutex' = [mutex EXCEPT ![m].recursion = @ - 1]
    /\ Released(t, m)
    /\ UNCHANGED taskVars

(* Mutant: the mutex is freed even when a waiter was made its owner.       *)
UnlockFrees(t, m) ==
    /\ InApp(t)
    /\ mutex[m].locked = 1 /\ mutex[m].owner = t
    /\ mutex[m].recursion = 1
    /\ mutex' = [mutex EXCEPT ![m] =
                     [locked |-> 0, owner |-> NoOwner, recursion |-> 0]]
    /\ tasks' = task_restore_priority(task_wake(tasks, m, "MUTEX"), mutex', t)
    /\ Released(t, m)
    /\ UNCHANGED <<current, ticks, pendsv, pc, call>>

(* Mutant: the waiters are left blocked.                                   *)
UnlockNoWake(t, m) ==
    /\ InApp(t)
    /\ mutex[m].locked = 1 /\ mutex[m].owner = t
    /\ mutex[m].recursion = 1
    /\ mutex' = [mutex EXCEPT ![m] =
                     [locked |-> 0, owner |-> NoOwner, recursion |-> 0]]
    /\ tasks' = task_restore_priority(tasks, mutex', t)
    /\ Released(t, m)
    /\ UNCHANGED <<current, ticks, pendsv, pc, call>>

\* The last unlock passes the mutex to the best waiter; no switch is requested.
UnlockOuter(t, m) ==
    LET next == task_wake_get_id(tasks, m, "MUTEX")
        T == task_wake(tasks, m, "MUTEX")
        R == task_restore_priority(T, mutex', t)
    IN  /\ InApp(t)
        /\ mutex[m].locked = 1 /\ mutex[m].owner = t
        /\ mutex[m].recursion = 1
        /\ mutex' = [mutex EXCEPT ![m] =
                IF next = NoTask
                THEN [locked |-> 0, owner |-> NoOwner, recursion |-> 0]
                ELSE [locked |-> 1, owner |-> next, recursion |-> 1]]
        /\ tasks' = IF next = NoTask THEN R
                    ELSE task_restore_priority(R, mutex', next)
        /\ Released(t, m)
        /\ UNCHANGED <<current, ticks, pendsv, pc, call>>

-----------------------------------------------------------------------------
(* tick_tasks with mutexes: indices in order, and each waiter that times   *)
(* out takes its share of the boost away from the owner chain at once.     *)

(* Mutant: a waiter that times out leaves its boost behind.                *)
TickOneKeepsBoost(T, M, now, i) == [T EXCEPT ![i] = tick_task(@, now)]

tick_one(T, M, now, i) ==
    LET E == [T EXCEPT ![i] = tick_task(@, now)]
        owner == IF WaitExpired(T[i], now) /\ T[i].wait_kind = "MUTEX"
                 THEN M[T[i].wait_object].owner ELSE NoOwner
    IN  IF owner = NoOwner THEN E ELSE restore_priority_chain(E, M, owner)

tick_all(T, M, now) ==
    LET upto[i \in 0 .. task_count] ==
            IF i = 0 THEN T ELSE tick_one(upto[i - 1], M, now, i - 1)
    IN  upto[task_count]

MutexSysTick ==
    /\ SysTickClock
    /\ tasks' = tick_all(tasks, mutex, ticks')
    /\ UNCHANGED mutexVars

-----------------------------------------------------------------------------
Continue(t) ==
    \/ LockFree(t)
    \/ LockAgain(t)
    \/ LockTry(t)
    \/ LockTooLate(t)
    \/ LockBlock(t)
    \/ ArchYield(t) /\ UNCHANGED mutexVars
    \/ LockReturn(t)

Next ==
    \/ PendSV /\ UNCHANGED mutexVars
    \/ MutexSysTick
    \/ Services /\ UNCHANGED mutexVars
    \/ \E t \in ApplicationTask :
          \/ \E c \in LockCall[t] :
                depth[t][c[1]] < MaxRecursion[c[1]] /\ LockEnter(t, c[1], c[2])
          \/ Continue(t)
          \/ \E m \in Object : UnlockInner(t, m) \/ UnlockOuter(t, m)

Safety == Init /\ [][Next]_vars

-----------------------------------------------------------------------------
(* Properties.                                                             *)

(***************************************************************************)
(* A task that was told it holds a mutex is its owner, and the recursion   *)
(* count is the number of locks it has to undo; a task that was made owner *)
(* while it slept accounts for one lock it has not been told of yet.  Two  *)
(* tasks therefore never both believe they hold a mutex.                   *)
(***************************************************************************)
HandedOver(t, m) ==
    /\ pc[t] \in {"yield", "woken"}
    /\ call[t].object = m
    /\ tasks[t].state # "BLOCKED"
    /\ tasks[t].wait_result = 1

OwnershipAgrees ==
    /\ TypeOK
    /\ \A t \in Task, m \in Object :
          depth[t][m] + (IF HandedOver(t, m) THEN 1 ELSE 0) =
              IF mutex[m].locked = 1 /\ mutex[m].owner = t
              THEN mutex[m].recursion ELSE 0

(***************************************************************************)
(* The mutex part of kernel_check_invariants_locked never halts the system *)
(* (sync_invariant_check), and no task waits for a mutex that is free or   *)
(* its own.                                                                *)
(***************************************************************************)
MutexChecksHold ==
    /\ \A m \in Object :
          IF mutex[m].locked = 0
          THEN mutex[m].owner = NoOwner /\ mutex[m].recursion = 0
          ELSE mutex[m].owner \in Task /\ mutex[m].recursion # 0
    /\ \A t \in Task :
          (tasks[t].state = "BLOCKED" /\ tasks[t].wait_kind = "MUTEX") =>
              /\ mutex[tasks[t].wait_object].locked = 1
              /\ mutex[tasks[t].wait_object].owner # t

Boost(t) == WaiterPriority(tasks, mutex, t)

(***************************************************************************)
(* Priority inheritance, along chains of owners: no owner runs below a     *)
(* task that waits for one of its mutexes.                                 *)
(***************************************************************************)
NoPriorityInversion ==
    \A t \in Task : \A p \in Boost(t) : p <= tasks[t].priority

(***************************************************************************)
(* A boost ends with the last mutex: a task that owns none has its base    *)
(* priority back, and no task ever falls below its base priority.          *)
(***************************************************************************)
BoostNeedsMutex ==
    \A t \in Task :
        /\ tasks[t].priority >= base_priority[t]
        /\ (\A m \in Object : mutex[m].owner # t) =>
                tasks[t].priority = base_priority[t]

(***************************************************************************)
(* A waiter that times out takes its boost along: in the tick that ends    *)
(* its wait, the owner of the mutex gets exactly the priority its          *)
(* remaining waiters justify, whichever other waits end in that tick.      *)
(***************************************************************************)
TimeoutRestores ==
    [][\A w \in Task :
        (/\ tasks[w].state = "BLOCKED" /\ tasks[w].wait_kind = "MUTEX"
         /\ tasks'[w].state # "BLOCKED" /\ tasks'[w].wait_result = 0) =>
            LET owner == mutex[tasks[w].wait_object].owner
            IN  tasks'[owner].priority =
                    EffectivePriority(tasks', mutex', owner)]_vars

(***************************************************************************)
(* Chain restoration as docs/RTOS.md and the comment of                    *)
(* restore_priority_chain promise it: after waiters are gone, a task's     *)
(* priority is its own or that of a task that waits for it.                *)
(***************************************************************************)
BoostHasWaiter ==
    \A t \in Task :
        tasks[t].priority > base_priority[t] => tasks[t].priority \in Boost(t)
=============================================================================
