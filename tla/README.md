# A verification project for the justRT kernel

justRT is a small preemptive real-time kernel for one Cortex-M core. This
project models its scheduler, its synchronisation objects, its start from reset
with the memory protection, and its instrumentation in TLA+, checks them with TLC on small
instances, and proves every safety property the runs establish with TLAPS, for
every number of tasks and objects, every priority assignment and every width of
the tick counter. Paths below are relative to the repository.

## 1. The system

### 1.1 Components

| Component | State | Operations | Correct when |
|---|---|---|---|
| Task table and scheduler (`kernel/task.c`) | `tasks[]` (state, priority, base priority, sleep count, wait data), `g_current_task_index`, `g_kernel_ticks` | `pendsv_switch`, `tick_tasks`, `sleep_current`, `kernel_task_suspend`, `kernel_task_resume`, `task_wait_begin/_until/_end`, `task_wake*`, `task_block_until_locked` | the task that executes is the RUNNING one and has the highest READY priority; equals share the core; a finite wait ends at its deadline, not before; `kernel_check_invariants_locked` never fails |
| Semaphores (`kernel/sync.c`) | `available` | take with timeout, give, give from ISR | no lost wake-up; tokens neither lost nor duplicated |
| Queues (`kernel/sync.c`) | ring of slots, `count`, send and receive reservations | send, receive, send from ISR | a bounded FIFO; a woken caller finds what it was woken for |
| Recursive mutexes (`kernel/sync.c`, `kernel/task.c`) | `locked`, `owner`, `recursion`, the priorities in the table | lock with timeout, unlock, restoration at timeout | one owner, which knows it; no owner below its waiters; boosts end |
| Port (`arch/cortex_m`) | PRIMASK, the PendSV pending bit | `SysTick_Handler`, `PendSV_Handler`, `svc_dispatch`, critical sections | the steps the kernel assumes to be atomic are |
| Notifications, event groups (`kernel/task.c`) | `notification_value`; event bits and per-task wait masks | notify, notify from ISR, take; set, set from ISR, wait | no lost notification; nobody sleeps beside its event; no event vanishes unreported |
| Software timers (`kernel/timer.c`) | list of timers, deadlines, pending counts | start, stop, restart, expiry in the tick, claim by the service task | expiry is punctual; the service never sleeps over work; the later operation controls the deadline |
| Memory pools (`kernel/mempool.c`) | bitmap of used blocks | allocate, free | a block has one owner; a bad free is refused |
| Start of the kernel (`kernel/task.c`) | `kernel_initialized`, `kernel_started`, the configuration in force | `JRT_KernelInit` with its checks, `JRT_KernelStart` | exactly the configurations are accepted in which tasks share no memory they must not share; a refused one changes nothing |
| MPU regions (`port_cm7.c`) | region registers, the port's copies of them, CONTROL | `arch_configure_mpu`, `arch_set_task_private_data`, `arch_set_task_stack_guard` | unprivileged code writes the shared data and its own private region only |
| Periodic tasks (`kernel/task.c`) | the caller's `previous_wake` | `JRT_TaskDelayUntil`, `JRT_KernelTickReached` | never early; the error of a period is not carried on |
| Tick conversion (`port_cm7.c`), periods in cycles (`kernel/benchmark.c`) | none | `JRT_MillisecondsToTicks`, `period_to_cycles` | exact, rounded up, saturated |
| Benchmark (`kernel/benchmark.c`) | a record per task: counts, stamps, two flags | release, coalesced, start, complete hooks, reset | releases and completions are paired; what is measured starts at the latest release or reset |
| Fatal stop, fault handlers, platform code | hardware | | not part of the kernel's decisions |

### 1.2 How they interact, and what is hard

Every kernel service masks interrupts while it reads and writes shared state,
so the interleavings that matter are between critical sections. They are cut
in these places:

* a blocking call computes its absolute deadline (`task_wait_deadline`), and
  only then enters the critical section in which it tests the object;
* `task_block_until_locked` publishes BLOCKED, enables interrupts, and reaches
  the SVC that gives up the core later: a tick or an interrupt can wake the
  task, expire its wait, or switch away from it in between;
* a woken task learns from `wait_result` what happened, long after the giver
  went on; others may have run since;
* notifications and event groups decide by the value or the bits they find
  when the woken task runs, not by `wait_result`;
* the timer service looks for work, publishes BLOCKED and yields while the tick
  and other tasks produce work;
* `JRT_TaskDelayUntil` reads the clock in one critical section and sleeps for
  the difference in a supervisor call of its own;
* the port writes the MPU's registers only when its copy of them differs, and
  so relies on every path that changes them keeping the copy exact;
* the benchmark hooks see a task's state change before the switch that ends or
  starts its execution, and a reset can come in any of these states;
* giving, sending and unlocking from a task do not request a switch, so the
  woken task runs at the next tick, yield or block.

The tick counter is a `uint32_t` that wraps, mutex owners form chains (and, in
a deadlock, cycles) along which priorities move, and several waits can expire
in one tick. `PROJECT.json` lists these hazards at their lines, with the
properties that would catch them going wrong.

## 2. The modules

| Module | What it models |
|---|---|
| `TaskTable` | the task table and the pure functions on it: wait begin and end, deadlines modulo `TICK_MOD`, wake-up selection, per-task tick processing, scheduler selection, suspend, resume, the table `JRT_KernelInit` builds, the kernel's invariant check |
| `Task` | execution: which task runs, the clock, the PendSV pending bit, where each task is in its kernel call. PendSV, SysTick, the SVC services, and the pieces of a blocking call that the synchronisation modules share |
| `Periodic` | `JRT_TaskDelayUntil` on `Task`: reading the clock and sleeping are two steps |
| `Kernel` | reset, the checks of `JRT_KernelInit`, `JRT_KernelStart`, the MPU and the privilege of the running task, on `Periodic`, and the statement that the conversions of `Conversion` agree with their references |
| `Conversion` | `JRT_MillisecondsToTicks` and the benchmark's 64-bit division, as functions of the machine's width. A power of two is a loop of shifts (`PowerOfTwo`): the prover knows no exponentiation |
| `Semaphore` | binary semaphores on `Task` |
| `Queue`, `Fifo` | queues on `Task`, and the abstract bounded FIFO they implement |
| `Mutex` | recursive mutexes with priority inheritance on `Task` |
| `Notification` | task notifications on `Task`: a sum modulo `NOTIFY_MOD` per task |
| `Benchmark` | the benchmark hooks and records on `Notification` |
| `EventGroup` | event groups on `Task`: wait-any, wait-all, clear-on-exit |
| `Timer` | software timers on `Task`, with the timer service task running |
| `Mempool` | memory pools; independent of the scheduler |
| `MC*` | constants for TLC |
| `TaskProofs` | lemmas on `TaskTable` and `Task` that all of the following use, and the theorems about `Task` |
| `SemaphoreProofs`, `QueueProofs`, `MutexProofs`, `EventGroupProofs`, `TimerProofs` | the theorems about the module of that name |
| `NotificationProofs` | the theorems about `Notification` and `Benchmark` |
| `MemoryProofs` | the theorems about `Mempool`, and about `Kernel` with `Periodic` and `Conversion` |

### 2.1 State and steps

`tasks` keeps the fields of `task_t` that decide scheduling and waiting.
`current` is `g_current_task_index`, `ticks` is `g_kernel_ticks` modulo
`TICK_MOD` (2^32 in the code), `pendsv` is the pending bit that
`request_switch` sets. `pc` and `call` stand for the stack of a task inside a
blocking call: its place and its local variables.

A critical section is one step. Between two steps SysTick can always come, and
so can the interrupt handlers of a module. A thread step needs `pendsv = 0`:
PendSV has the lowest exception priority but is taken before the next thread
instruction. The places of `pc` are `app` (application code), `attempt` (the
deadline is computed, the critical section not entered), `yield` (BLOCKED
published, SVC not reached), `woken` (behind the SVC), and
`callback` (the timer service executes a callback).

| Code | Model |
|---|---|
| `pendsv_switch` | `PendSV` with `Preempted`, `Best`, `next_index` |
| `SysTick_Handler`, `tick_tasks` | `SysTick`; `MutexSysTick` where timeouts restore priorities |
| `svc_dispatch` | `TaskYield`, `TaskDelay`, `TaskSuspend`, `TaskResume` through `Svc` |
| `task_block_until_locked` | `Block`, `GiveUp`, `ArchYield`, `Woken` |
| `JRT_SemaphoreTake` | `TakeEnter`, then `TakeAvailable`, `TakeGiveUp`, or `TakeBlock`, `ArchYield`, `TakeReturn` |
| `JRT_SemaphoreGive`, `...FromISR` | `SemaphoreGive`, `SemaphoreGiveFromISR` |
| `JRT_QueueSend`, `JRT_QueueReceive` | `SendEnter`/`ReceiveEnter`, then the item, give-up or block steps; `WokenReserved` goes round the loop, `WokenByTimeout` leaves it |
| `JRT_QueueSendFromISR` | `SendFromISR` |
| `JRT_MutexLock` | `LockEnter`, then `LockFree`, `LockAgain`, `LockTry`, `LockTooLate`, or `LockBlock`, `ArchYield`, `LockReturn` |
| `JRT_MutexUnlock` | `UnlockInner`, `UnlockOuter` |
| `task_wait_begin` in a call that tests and blocks in one critical section | `BlockNow` |
| `JRT_TaskNotifyTake` | `TakeNow`, or `TakeBlock`, `ArchYield`, `TakeWoken` |
| `task_notify_common` | `Notified`, from a task and from an interrupt |
| `JRT_EventGroupWaitBits` | `WaitNow`, `WaitPoll`, or `WaitBlock`, `ArchYield`, `WaitWoken` |
| `event_group_set_bits_common` | `Set`, from a task and from an interrupt |
| `timer_service_body`, `kernel_timer_service_claim` | `ServiceClaim`, `CallbackReturn`, `ServiceBlock`, `ArchYield` |
| `kernel_timer_tick` before the tasks in `tick_tasks` | `TimerSysTick` with `Due`, `Expired` |
| `JRT_TimerStart`, ... | `TimerStart`, `TimerStartPeriodic`, `TimerRestart`, `TimerStop`, `TimerSetCallback`, `TimerTakeExpirations`, `TimerDispatch`, by a task or by a callback; `TimerCreateStatic` resets a timer, and links it if it is not linked |
| `JRT_MemoryPoolAllocate`, `JRT_MemoryPoolFree` | `Allocate`, `AllocateFails`, `FreeOwn`, `FreeBad` |
| `JRT_TaskDelayUntil` | `DelayUntil` up to the comparison, then `DelayUntilSleep`; `PeriodStart` is the application starting its period over |
| `validate_task_stack`, `validate_private_region` | predicates of the same names; `KernelInitStatus` is the answer of `JRT_KernelInit` |
| `JRT_KernelInit`, `JRT_KernelStart` | `KernelInit` of an accepted configuration (a refused one is no step), `KernelStart` |
| the end of `pendsv_switch`, `task_current_control` in `PendSV_Handler` | `Switch`: `PendSV` with `SelectTask` |
| `task_benchmark_*_locked` in the wait, sleep, suspend, resume and tick code | `Hooks`, by the change of state each call stands beside; `StartHook` in the switch; `NotifyHook` in `task_notify_common` |
| `JRT_BenchmarkReset` | `BenchmarkReset` |
| `task_inherit_priority`, `restore_priority_chain` | recursive functions along the owner chain, one turn each `Raise` and `Restore`, cut at `task_count` links as the loops are |

History variables, read by no guard: `owed` (tokens given and not taken) and
`waited` (ticks since a call was entered, saturating at `TICK_MOD`) in
`Semaphore`, `waited` also in `Notification` and `EventGroup`, `result` and
`stolen` (what a wait returned; which bits of its group were cleared between a
task's wake-up and its next look) in `EventGroup`,
`lag` and `slip` (how late a periodic task is, how many ticks came between its
clock read and its sleep, on no counter that wraps) in `Periodic`, `parked`
(suspended while READY and not measured since) in `Benchmark`,
`age` (ticks since a timer was armed) in `Timer`, `held` in `Mempool`, `depth`
(locks a task has to undo) in `Mutex`. `depth` also
bounds how deep a task nests its locks (`MaxRecursion`, per mutex).

Addresses in `Kernel` are numbers modulo `ADDR_MOD` and a memory range is a
base and a size, as in the code; the properties speak of sets of addresses.
An MPU region is its base and size, and size 0 a cleared RASR. A cycle count in
`Benchmark` is reduced to what a measurement depends on: whether its stamp was
taken at the latest event of its kind, or a later reset (`fresh`), or before
(`stale`). The maxima follow from the stamps and are left out.

Calls that change nothing are not steps of their own: a call from the wrong
context, an unlock by a task that is not the owner, an interrupt send to a full
queue, a configuration that is refused. Diagnostic counters are left out, and
so are the contents of stacks and registers. The modules on `Task` start in the
state that `JRT_KernelStart` leaves behind; `Kernel` alone starts at reset.

### 2.2 Composition

`Semaphore`, `Queue`, `Mutex`, `Notification`, `EventGroup`, `Timer` and
`Periodic` each EXTEND `Task` and add their object to the
same scheduler, clock and services. Tasks are indices: the application's
tasks, then the timer service, then the idle task. The timer service
stays blocked for ever except in `Timer`, where it runs: no timer is armed in
the other modules. `Kernel` EXTENDS `Periodic` and conjoins the MPU and the
privilege to every switch; `Benchmark` EXTENDS `Notification`, the one service
whose events can coalesce, and conjoins the hooks to every step. A callback is any sequence of timer operations, as the
execution-context table of `docs/RTOS.md` allows, and `JRT_TimerDispatch` takes
the expirations in one step because the callbacks it then runs are the
application's own code.

## 3. The runs

All bounds are constants of the `.cfg` files.

| Run | Instance | Shows |
|---|---|---|
| `task` | from reset, 4 configurations to initialise with (2 accepted) and 1000 to judge, in 256 addresses, with a shared section smaller than its MPU window; 3 tasks (priorities 1, 2, 2), one of them periodic with periods 0, 1, 3, delays 0..2, suspend and resume of every task, self and the idle task, `TICK_MOD` 6; conversions for all 8-bit arguments with 10 for 1000 | `KernelTypeOK`, `InitAcceptsSafe`, `MemoryIsolated`, `DelayUntilPunctual`, `ConversionsExact`, `HighestPriorityRuns`, `RoundRobin`, `SleepEnds`, `ExecutingIsRunning` |
| `semaphore` | 2 tasks, 1 semaphore, an ISR, timeouts 0, 2, forever, suspension, `TICK_MOD` 4 | `NoLostWakeup`, `TokenConservation`, `TimeoutNotEarly`, `NoOverdueWaiter`, `KernelInvariantsHold`, `FiniteTakeReturns` |
| `queue` | 2 tasks, an ISR, 1 slot, timeouts 0, 1, forever, suspension | `ReservationsKept`, `NoLostWakeup`, `PromiseKept` |
| `queue_fifo` | 2 slots, 2 items | `ImplementsFifo`: `Queue` implements `Fifo` |
| `mutex` | 3 tasks of rising priority, 2 mutexes: a chain of owners and deadlock cycles between the first two, one mutex nested twice, timeouts 0, 1, forever, delays, suspension | `OwnershipAgrees`, `MutexChecksHold`, `NoPriorityInversion`, `BoostNeedsMutex`, `TimeoutRestores` |
| `mutex_stale` | 2 tasks, 1 mutex | `BoostHasWaiter` is violated, see section 5 |
| `notification` | 2 tasks, an ISR, sums modulo 3, timeouts 0, 2, forever, suspension, an identifier out of range | `NoLostNotification`, `EmptyTakeExplained`, `NotificationDelivered` |
| `event_group` | 2 tasks, an ISR, 2 bits, wait-any and wait-all, clearing and not, timeouts 0, 2, forever | `NoSatisfiedWaiter`, `ClearedIsReported`, `UnmetWaitExplained` |
| `event_group_stolen` | the same, infinite waits only | `ForeverWaitIsMet` is violated, see section 5 |
| `timer` | 1 task and the service at equal priority, 2 timers, one not linked yet, delays 0..2, pending count modulo 2 | `ServiceSeesWork`, `NoOverdueTimer`, `ExpiryIsPunctual`, `TimerChecksHold`, `PendingIsServed` |
| `mempool` | 3 clients, 5 blocks over words of 2 bits, bad frees of every address | `BitmapAgrees`, `BlocksAreExclusive` |
| `benchmark` | 2 tasks and an ISR, the record of the task that is notified, counters modulo 3, timeouts 1, forever, delays, suspension, resets | `ActivationsClosed`, `BalanceKept`, `MeasuresAreFresh` |

The type invariant of a module is a conjunct of its first safety invariant,
and so proved with it.

Why these are enough: a wake-up is decided between one waiter, one giver and
one interrupt, and two tasks with an ISR give every order of these; a third
task enters where a chain (two links) or a tie (two equals above another) is
the point. `TICK_MOD` 3 or 4 makes every wait cross the wraparound in some
behaviour, with `JRT_WAIT_FOREVER` as the largest value as in the code, and
leaves finite timeouts of more than one tick where that matters. One slot makes
a queue full and empty at once around a single transfer, two slots give an
order of items and a wrapping index. Two bits tell wait-all from wait-any and
let one waiter take part of another's bits. Timer delays stay within half the
counter (`TimerAssumption`): the code compares signed distances, so a longer
delay would expire at the next tick. `NOTIFY_MOD` and `EXPIRE_MOD` of 2 or 3
make the 32-bit sums and counts wrap. A periodic task is followed until it is
half the counter's range behind, where the code's signed comparison takes its
wake time for a future one. The configurations to judge vary the stack of one
task and the private regions of two through sound, misaligned, overlapping and
wrapping layouts; the shared section needs a window a third larger than itself,
and the private data lies beyond that; two accepted ones are enough for every switch between a task
with and one without a private region, privileged and not. The conversions
depend on widths and one factor, so bytes and the factor 10 meet every
overflow, rounding and saturation; `ConversionAssumption` states the relation
between them that 32 bits and 1000 also have. The models are finite without state
constraints, so each run is exhaustive.

Delays that no wait can absorb: a task can be kept from the core for more than
one wrap of the counter between computing its deadline and testing it. It then
waits up to one wrap longer than asked. The model contains these behaviours;
`TimeoutNotEarly` says a wait is never too short, `NoOverdueWaiter` that it is
not too long measured from the last wrap.

### Fairness

In `task` the application is one that does initialise and start the kernel, so
these steps are fair as well; the liveness properties would otherwise hold of a
system that stays at reset. `WF` of PendSV and of SysTick: both are hardware, a pending exception is taken
and the clock runs. `SF` of the steps of a task inside a kernel call: PendSV
can preempt a task between any two steps, so its next step is enabled and
disabled again; a task that gets the core again and again executes its next
instruction, because a tick period is many instructions long. Nothing is
assumed of the application's own code, and nothing of a task that is never
scheduled. The steps of the timer service are strongly fair for
the same reason, its callbacks included (`docs/RTOS.md`: "Timer callbacks must
remain bounded"). The liveness properties speak of tasks no other task outranks
(`TopTask`, and in `timer` the service): a task of lower priority can starve, by design.

Deadlock checking is on in every run. SysTick is always enabled, so it says
only that no step gets stuck in an evaluation; a stopped *task* is what the
liveness properties are about.

## 4. The proofs

The theorems hold for all values of the constants that meet the named
assumptions. All but two are about the specification of a run; `TaskSafety` and
`SchedulingIsByPriority` are about `TaskSpec`, the scheduler alone, whose
lemmas every other proof uses. For the specification of run `task`,
`KernelExecutesRunning` and `KernelSchedulesByPriority` say the same. Fairness
plays no part in the proofs.

| Module | Theorem | Statement |
|---|---|---|
| `TaskProofs` | `TaskSafety` | `TaskSpec => [](TaskTypeOK /\ ExecutingIsRunning)` |
| | `SchedulingIsByPriority` | `TaskSpec => HighestPriorityRuns` |
| `SemaphoreProofs` | `SemaphoreLosesNoWakeup` | `[]NoLostWakeup` |
| | `SemaphoreConservesTokens` | `[]TokenConservation` |
| | `KernelCheckNeverFails` | `[]KernelInvariantsHold` |
| | `FiniteWaitsExpire` | `[]NoOverdueWaiter` |
| | `TakeIsNotEarly` | `TimeoutNotEarly`, an action property |
| `QueueProofs` | `QueueReservationsAreKept` | `[]ReservationsKept` |
| | `QueueLosesNoWakeup` | `[]NoLostWakeup` |
| | `QueueIsFifo` | `ImplementsFifo`: the refinement of `Fifo` |
| `MutexProofs` | `MutexesAreExclusive` | `[]OwnershipAgrees` |
| | `MutexChecksNeverFail` | `[]MutexChecksHold` |
| | `NoOwnerIsOutranked` | `[]NoPriorityInversion` |
| | `BoostsEndWithTheLastMutex` | `[]BoostNeedsMutex` |
| | `TimeoutsRestoreExactly` | `TimeoutRestores`, an action property |
| `NotificationProofs` | `NotificationsAreNotLost` | `[]NoLostNotification` |
| | `EmptyTakesAreExplained` | `EmptyTakeExplained`, an action property |
| | `ActivationsAreClosed` | `[]ActivationsClosed` |
| | `BalanceIsKept` | `BalanceKept`, an action property |
| | `MeasuresAreFromFreshStamps` | `MeasuresAreFresh`, an action property |
| `EventGroupProofs` | `NoWaiterIsSatisfied` | `[]NoSatisfiedWaiter` |
| | `ClearedBitsAreReported` | `ClearedIsReported`, an action property |
| | `UnmetWaitsAreExplained` | `UnmetWaitExplained`, an action property |
| `TimerProofs` | `ServiceSleepsOverNoWork` | `[]ServiceSeesWork` |
| | `TimersAreNeverOverdue` | `[]NoOverdueTimer` |
| | `TimerChecksNeverFail` | `[]TimerChecksHold` |
| | `TimersExpireOnTime` | `ExpiryIsPunctual`, an action property |
| `MemoryProofs` | `PoolBitmapAgrees` | `[]BitmapAgrees` |
| | `PoolBlocksAreExclusive` | `[]BlocksAreExclusive` |
| | `KernelTypes` | `KernelSpec => []KernelTypeOK` |
| | `KernelExecutesRunning` | `KernelSpec => []ExecutingIsRunning`: from reset on, with periodic tasks |
| | `KernelSchedulesByPriority` | `KernelSpec => HighestPriorityRuns` |
| | `KernelInitIsExact` | `[]InitAcceptsSafe`: the checks accept exactly the safe configurations |
| | `KernelIsolatesMemory` | `[]MemoryIsolated`: the window of the shared data, the task's private data, nothing else |
| | `WindowIsExactIfItFits` | `SharedWindow` is the shared section exactly when that is empty or fills an MPU region; up to `SECTION_ALIGN` bytes it does |
| | `FittingDataIsIsolatedExactly` | then the section takes the place of its window in `MemoryIsolated`, and the data region leaves all private data out |
| | `PeriodsDoNotDrift` | `DelayUntilPunctual`, an action property |
| | `TimesAreExact` | `[]ConversionsExact`, for every word width and factor |

### 4.1 The inductive invariants

**`TaskInv`** is part of every other one. It needs all of its parts together:
`ExecutingIsRunning` is preserved by a context switch only if some task is
READY, which is `IdleRunnable`; ending a wait and changing a state keep
`KernelInvariantsHold` only because a task that executes is not BLOCKED;
`NoOverdueWaiter` survives a tick because the tick ends exactly the waits it
makes overdue, and survives a block because of the second look at the deadline.
`TaskProofs` begins with the table's functions: the scheduler returns a READY
task of the highest priority, and `task_wake` ends the wait of one waiter or
there is none. Scheduling, clock and services are dealt with once for all
modules (`NoNewWait`, `KernelStep`): they start no wait and end one only with
result 0.

**`SemaphoreInv`** adds how a wait in the table and the call of its task belong
together (`CallsMatchWaits`): without it a wake-up could end a wait nobody
returns from, and tokens could not be counted. `NoLostWakeup` is part of the
invariant because conservation needs it: a give that wakes a task adds a token
only if none was available.

`TimeoutNotEarly` needs a second invariant, `WaitsMeasured`: the distance from
the start of a call on the wrapping counter is never more than the ticks that
really went by (a tick adds one to both, or takes the first back to 0), and the
table holds the deadline of the call. `TimedWait` in `TaskProofs` is the same
for one task; notifications and event groups use it.

**`QueueInv`** has the calls, the ring (`RingOK`: the next free slot is `count`
slots behind the oldest item), `ReservationsKept` and `NoLostWakeup`. The last
two need each other: a send that finds no receiver to wake may leave its item
unpromised only because nobody waits, and a woken receiver finds an item only
because every other taker respects its reservation. The refinement maps the
ring to the sequence of its items from the oldest; the proof shows that a send
appends to it, a receive takes its head, and every other step keeps it.

**`MutexInv`** says that every mutex passes the kernel's own check, that tasks
wait only for mutexes another task owns, that no owner is below a waiter and
none below its base, that a raised task owns a mutex, and that the place of
every task in its call agrees with the table. The deadlock the kernel permits
is why the arguments about chains cannot use that a chain ends:

* `task_inherit_priority` walks at most `task_count` owners. `Raised` describes
  the walk after `d` turns: the `d` tasks met so far have the new priority, and
  whom they wait for has it too, or is met next, or was met before. With all
  tasks met the walk can only have closed a cycle, so the bound is enough.
* `restore_priority_chain` recomputes one owner after the other and stops at the
  first whose priority stays. `Restoring` and `Lowered` say that the tasks
  already left are exact, that priorities only fall, and that every task
  lowered so far had at most the priority of the next one: a walk round a cycle
  meets a task it has just lowered and stops.
* a tick visits the tasks in order and restores between two of them. `Ticked`
  says after `k` tasks: waits that ended so far left an exact owner, and a
  later restoration does not spoil it.

The functions are recursive, and the prover cannot unfold those by itself:
`Iterates`, `IterationExists` and `UpTo` in `TaskProofs` give a loop of `n`
turns its values and do the induction over its turns, from the fact that a set
of naturals has a least element. Powers of two and the long division use them
too.

**`NoteInv`** and **`EventInv`** have the timed waits and that no BLOCKED task
could be satisfied. `EventInv` also says that a task woken by its condition has
it still, except for what was cleared since (`WaitsMet`). **`BenchmarkInv`** adds
what a record may look like in each state of its task.

**`TimerInv`** has the list (no timer twice), that the service blocks on nothing
but its own wait, `ServiceSeesWork`, and `TimersOK`: the deadline of an active
timer is as far ahead on the wrapping counter as the rest of its delay is in
real ticks. Half the counter bounds the delays (`TimerAssumption`); beyond it
the theorem is false, see section 3.

**`PoolInv`** is `BitmapAgrees` and that an address is held by one client; the
rest is division with remainder, by which a block, its word and its bit
determine each other.

**`PeriodInv`** adds to `TaskInv` where each periodic task is in its period.
`LagIsTrue`: the distance from `previous_wake` to the clock on the wrapping
counter is the real one, until the task is lost half the range behind. And the
task is in one of three places: `Awake`, with its wake time reached; `Retiring`,
with the clock read and the sleep not begun; or `Asleep`. In the last two
`Behind` holds: its lag is the slip between the clock read and the sleep, less
the ticks still to sleep. So a task whose sleep runs out is late by the slip
alone, whatever its earlier periods were. The invariant needs that a retiring
task is not SLEEPING, and that nothing but its own call makes it so.

**`KernelInv`** adds the start and the memory protection. Before
`JRT_KernelStart` nothing of the scheduler has moved (`PeriodicInit`), so
initialising again is harmless. A configuration in force was accepted, and the
MPU is exactly what `arch_configure_mpu` and the switch to the current task
would write from scratch (`MpuOf`), the port's copies included: hence a write
that is skipped because the copy agrees is a write of what is there.
`KernelIsolatesMemory` then compares this MPU with the sets of addresses the
running task may write. How the linker placed the shared section is left open:
`SharedWindow` is what every MPU region over it contains, and `LeastWindow`
shows that `configure_region_range` finds just that, because aligned blocks
that share an address are nested (`BlocksNest`, `SizesDivide`). Whether the
window is larger than the section is a question of its own:
`WindowIsExactIfItFits` says precisely when, `FittingDataIsIsolatedExactly` what
holds when it is not. In run `task` it is larger. `AcceptsSafe` gives `KernelInitIsExact`: each comparison
of `validate_task_stack` and `validate_private_region` is equivalent to a
statement about sets of addresses (`StackOrder`, `RegionOrder`,
`RangesOverlap`, `ValidStack`, `ValidRegion`), where the alignment and the size
checks exclude that a range wraps round the address space.

**Conversions.** `Divided` is the invariant of the division bit by bit: with the
bits above `P` consumed, the quotient so far and the remainder are those of the
dividend shifted by `P`; one turn keeps it (`DivideTurn`, from `HalfQuotient`).
For milliseconds, the whole seconds and the fraction are converted apart;
`FractionExact` shows that rounding up the fraction rounds up the sum, and
`MillisecondsAreExact` that the saturation tests see every overflow.

TLC checked the invariants on the runs' instances before they were proved.
Two proof attempts corrected a model: `CASE` arms that overlapped in
`TimerSysTick` and in `Periodic` had the same value where TLC looked, but left
the value of the history variable open to a reader; their conditions are
disjoint now. `Timer` starts with any injective list of timers, not only with
the one of its run.

### 4.2 Assumptions

All are named, in the module that declares the constants, and TLC evaluates
them on every run.

* `TaskTableAssumption`: at least one application task, priorities in range and
  0 for the idle task, a counter of at least three values, the kinds of
  pointers distinct;
* `TaskAssumption`: delays and timeouts are tick counts, the self identifier is
  no index;
* `QueueAssumption`: one queue, any capacity (0 included), some items;
* `MutexAssumption`: which tasks lock what with which timeouts, and a bound on
  nesting that keeps the run finite and may be any number;
* `NotificationAssumption`, `BenchmarkAssumption`: counters of at least two
  values;
* `EventGroupAssumption`: a wait asks for at least one bit, as the code checks;
* `TimerAssumption`: the list at the start has no timer twice, and a delay is at
  most half the counter;
* `MempoolAssumption`: blocks and words are not empty, and the storage is not at
  address 0, as `JRT_MemoryPoolCreateStatic` checks;
* `PeriodicAssumption`: periods up to half the counter, as the signed comparison
  needs, and a counter with an even number of values;
* `MemoryAssumption`: a stack guard fills the smallest MPU region, the largest
  region is the address space, and each kernel task's stack lies behind its
  guard; these tasks are privileged and have no private data;
* `KernelAssumption`: a candidate configuration has the types of
  `JRT_TaskDefinition` (any values), and one that is accepted has the tasks of
  the table; both ends of the shared section are multiples of `SECTION_ALIGN`
  and the private section lies behind it and below the end of the address
  space, which is what `linker_flash_s32k312.ld:122-138` guarantees. That the
  shared section fills an MPU region is not assumed;
* `ConversionAssumption`: the square of the factor 1000 fits a word, and the
  product of two words the wide type.

### 4.3 Only model-checked

Liveness under fairness is outside the prover: `RoundRobin`, `SleepEnds`,
`FiniteTakeReturns`, `PromiseKept`, `NotificationDelivered`, `PendingIsServed`.
The two findings of section 5 are counterexamples, found by TLC.

## 5. Findings

`JRT_MutexLock` calls `task_inherit_priority` and then
`task_block_until_locked`, which looks at the deadline first
(`kernel/sync.c:219`). If a tick made the deadline pass between entering the
call and its critical section, the call returns 0 without having waited, and
the owner keeps the priority it was given. Nothing restores it before the
owner's last unlock or another waiter's timeout. Run `mutex_stale` shows the
nine steps. `docs/RTOS.md:295` promises "Recursive mutexes with priority
inheritance and chain restoration", and `kernel/task.c:341` that the inherited
priority is recalculated after a waiter is removed. `BoostNeedsMutex` and
`TimeoutRestores` say what does hold.

`JRT_EventGroupWaitBits` does not wait again when the bits it was woken for are
gone (`kernel/task.c:765`). Run `event_group_stolen`: one set satisfies a
waiter, another task's wait clears the bits before it runs, and the infinite
wait returns unmet, with wait-all possibly with a part of its bits.
`docs/RTOS.md:311` says "`JRT_WAIT_FOREVER` selects an infinite wait", and
`tests/test_synchronization.c:97` takes such a return for an error.
`UnmetWaitExplained` says what does hold.

Observations beside them:

* `kernel_task_suspend` completes no activation of a task that is READY
  (`kernel/task.c:222`). A task preempted in its activation and suspended then
  keeps it open, and is released again by the resume; the release it had or
  gets stays pending until after the activation's end, and the latency that is
  then measured starts at the older release. `parked` marks these tasks in
  `Benchmark`; the properties say that nothing else disturbs the records.
* `JRT_BenchmarkGetTask` subtracts coalesced notifications from the releases
  (`kernel/benchmark.c:204`) though most of them are no releases, so
  `pending_count` reads 0 after as many coalesced notifications as there are
  releases in progress; a completion after a reset makes the count of
  completions the larger one, which the guard turns into 0.
* The private regions are compared with the stacks of the kernel's tasks, the
  application's stacks are not (`kernel/task.c:1220`); both are placed by the
  linker.
* `configure_region_range` doubles a region until its aligned block covers the
  section (`port_cm7.c:179`), and the linker script aligns both ends of
  `.unprivileged_task_data` to 8 KiB whatever its size
  (`linker_flash_s32k312.ld:124-128`). With more than 8 KiB, at an address that
  is no multiple of the rounded size, region 5 also covers what lies beside the
  section: 16 KiB at 0x20402000 become 0x20400000 to 0x20408000, with
  `.privileged_data` before and `.task_private_data` behind it, and region 5
  overrides the privileged region 1. No check and no linker assertion refuses
  this. `docs/RTOS.md:267` says "The linker aligns the explicit unprivileged
  sections to MPU-compatible boundaries", and line 278 "`.task_private_data` is
  deliberately absent from the static unprivileged map"; both hold up to 8 KiB
  (`WindowIsExactIfItFits`), beyond it they depend on where the section lands.
  `MemoryIsolated` says what holds always.
* `JRT_TaskNotifyTake` uses the value it finds as its
  success flag (`kernel/task.c:851`), so a sum that wraps to 0, or a
  notification of value 0, ends an infinite take without a value.
  `EmptyTakeExplained` says that this is the only way.

## 6. Not modelled, and the plan

Next would come the intrusive list of mutexes with its cycle check, creating
objects other than timers again while they are in use, and `JRT_KernelInit`
called from a running task, which the code does not refuse.

Left out for good:

* the read-only queries (task info, stack info, counters, benchmark records)
  and the statistics only they read: run, scan, timeout and misuse counters,
  stack watermarks and the stack check that feeds them;
* the MPU regions for flash, SRAM, code and constants, set once from linker
  symbols to values no step changes;
* register and FPU context switching, start-up code, linker scripts, fault
  handlers (hardware state, no decisions), `task_block`, which nothing calls;
* cycle counts as numbers, and the tests, examples and tools.
