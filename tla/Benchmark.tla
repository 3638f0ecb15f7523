----------------------------- MODULE Benchmark ------------------------------
(***************************************************************************)
(* Task benchmarking (kernel/benchmark.c): the kernel counts releases and  *)
(* completions of every task, stamps them with the cycle counter, and      *)
(* keeps the longest latency and duration.  The hooks sit inside the       *)
(* kernel functions that change a task's state; this module adds them to   *)
(* the scheduler, the task services and the notifications, the one service *)
(* that coalesces releases.                                                *)
(*                                                                         *)
(* Cycle counts are abstracted to what a measurement depends on: a stamp   *)
(* is "fresh" if it was taken at the latest event of its kind or at a      *)
(* later reset, "stale" otherwise.                                         *)
(***************************************************************************)
EXTENDS Notification

CONSTANTS
    COUNT_MOD,                          \* 2^32: the range of a counter
    benchmark_cycle_counter_available,  \* 0 on a core without DWT
    Watched                             \* tasks whose records are followed

\* A record depends on its own task only, so any of them can be left out.
ASSUME BenchmarkAssumption ==
    /\ Watched \subseteq Task
    /\ COUNT_MOD \in Nat \ {0, 1}
    /\ benchmark_cycle_counter_available \in {0, 1}

VARIABLES
    record,  \* benchmark_records
    parked   \* history: suspended while READY, not measured since

allVars == <<vars, record, parked>>

Stamp == {"none", "fresh", "stale"}

JRT_TaskBenchmarkRecord ==
    [release_count : 0 .. COUNT_MOD - 1,
     completion_count : 0 .. COUNT_MOD - 1,
     coalesced_count : 0 .. COUNT_MOD - 1,
     release_cycle : Stamp, activation_start_cycle : Stamp,
     release_pending : {0, 1}, activation_active : {0, 1}]

BenchmarkTypeOK ==
    /\ TypeOK
    /\ record \in [Watched -> JRT_TaskBenchmarkRecord]
    /\ parked \in [Watched -> BOOLEAN]

clear_record ==
    [release_count |-> 0, completion_count |-> 0, coalesced_count |-> 0,
     release_cycle |-> "none", activation_start_cycle |-> "none",
     release_pending |-> 0, activation_active |-> 0]

\* task_benchmark_init, which JRT_KernelInit calls before it prepares a task.
BenchmarkInit ==
    /\ Init
    /\ record = [t \in Watched |-> clear_record]
    /\ parked = [t \in Watched |-> FALSE]

-----------------------------------------------------------------------------
(* The hooks, as functions of one record.                                  *)

Count(n) == (n + 1) % COUNT_MOD

\* A release that finds one pending keeps the stamp of the earlier one.
task_benchmark_release(r, coalesced) ==
    [r EXCEPT !.release_count = Count(@),
              !.coalesced_count = IF coalesced THEN Count(@) ELSE @,
              !.release_cycle = IF r.release_pending = 0 THEN "fresh"
                                ELSE "stale",
              !.release_pending = 1]

task_benchmark_coalesced(r) == [r EXCEPT !.coalesced_count = Count(@)]

\* The release is measured when the task first runs behind it.
Measures(r) == r.release_pending = 1 /\ r.activation_active = 0

(* Mutant: the release stays pending.                                      *)
StartKeepsPending(r) ==
    IF ~Measures(r) THEN r
    ELSE [r EXCEPT !.activation_start_cycle = "fresh",
                   !.activation_active = 1]

task_benchmark_start(r) ==
    IF ~Measures(r) THEN r
    ELSE [r EXCEPT !.activation_start_cycle = "fresh",
                   !.release_pending = 0,
                   !.activation_active = 1]

(* Mutant: the activation stays open.                                      *)
CompleteKeepsActive(r) ==
    IF r.activation_active = 0 THEN r
    ELSE [r EXCEPT !.completion_count = Count(@)]

task_benchmark_complete(r) ==
    IF r.activation_active = 0 THEN r
    ELSE [r EXCEPT !.completion_count = Count(@),
                   !.activation_active = 0]

-----------------------------------------------------------------------------
(* Where they are called.  task_wait_begin, sleep_current and the suspend  *)
(* of the running task complete an activation; task_wait_end, the end of a *)
(* sleep and the resume release a task: each call stands beside the        *)
(* assignment of the state.                                                *)

Off == {"BLOCKED", "SLEEPING", "SUSPENDED"}
Completes(t) == tasks[t].state = "RUNNING" /\ tasks'[t].state \in Off
Releases(t) == tasks[t].state \in Off /\ tasks'[t].state = "READY"

Park(t) == tasks[t].state = "READY" /\ tasks'[t].state = "SUSPENDED"

Counted(R) ==
    record' = IF benchmark_cycle_counter_available = 0 THEN record ELSE R

Hooks ==
    /\ Counted([t \in Watched |->
           CASE Completes(t) -> task_benchmark_complete(record[t])
             [] Releases(t) -> task_benchmark_release(record[t], FALSE)
             [] OTHER -> record[t]])
    /\ parked' = [t \in Watched |-> parked[t] \/ Park(t)]

\* pendsv_switch starts an activation of the task it selects.
StartHook ==
    /\ Counted([t \in Watched |->
           IF t = current' THEN task_benchmark_start(record[t]) ELSE record[t]])
    /\ parked' = [t \in Watched |->
                     parked[t] /\ ~(t = current' /\ Measures(record[t]))]

\* task_notify_common: a value added to one not taken yet is coalesced.
NotifyHook(id, value) ==
    LET coalesced == value # 0 /\ notification_value[id] # 0
    IN  /\ Counted([t \in Watched |->
               CASE t = id /\ Releases(t) ->
                        task_benchmark_release(record[t], coalesced)
                 [] t = id /\ ~Releases(t) /\ coalesced ->
                        task_benchmark_coalesced(record[t])
                 [] OTHER -> record[t]])
        /\ UNCHANGED parked

\* Rebased if in use; whatever else was stamped before the reset is old.
Rebased(stamp, in_use) ==
    CASE in_use = 1 -> "fresh"
      [] in_use = 0 /\ stamp # "none" -> "stale"
      [] OTHER -> stamp

(* Mutant: the start of the running activation is not rebased.             *)
ResetKeepsStart(r) ==
    [r EXCEPT !.release_count = 0, !.completion_count = 0,
              !.coalesced_count = 0,
              !.release_cycle = Rebased(@, r.release_pending),
              !.activation_start_cycle = Rebased(@, 0)]

ResetRecord(r) ==
    [r EXCEPT !.release_count = 0, !.completion_count = 0,
              !.coalesced_count = 0,
              !.release_cycle = Rebased(@, r.release_pending),
              !.activation_start_cycle = Rebased(@, r.activation_active)]

\* The idle task is not among the benchmark_task_count tasks.
BenchmarkReset(t) ==
    /\ InApp(t)
    /\ record' = [u \in Watched |-> IF u = idle_index THEN record[u]
                                 ELSE ResetRecord(record[u])]
    /\ UNCHANGED <<vars, parked>>

-----------------------------------------------------------------------------
BenchmarkNext ==
    \/ PendSV /\ UNCHANGED noteVars /\ StartHook
    \/ ClockTick /\ Hooks
    \/ Services /\ UNCHANGED noteVars /\ Hooks
    \/ \E t \in ApplicationTask :
          \/ (\E timeout \in Timeout : Take(t, timeout)) /\ Hooks
          \/ Continue(t) /\ Hooks
          \/ BenchmarkReset(t)
    \/ \E id \in NotifyTarget, v \in NotifyValue :
          Notify(id, v) /\ NotifyHook(id, v)

BenchmarkSpec == BenchmarkInit /\ [][BenchmarkNext]_allVars

-----------------------------------------------------------------------------
(* Properties.                                                             *)

(***************************************************************************)
(* An activation ends where the task stops: a task that waits or sleeps    *)
(* has no open activation, and neither it nor a task that executes has a   *)
(* release that was not measured.  A task that was suspended while it was  *)
(* READY is excepted: kernel_task_suspend closes nothing then.             *)
(***************************************************************************)
ActivationsClosed ==
    /\ BenchmarkTypeOK
    /\ \A t \in Watched :
          LET r == record[t]
          IN  /\ tasks[t].state \in {"BLOCKED", "SLEEPING"} =>
                     /\ r.activation_active = 0
                     /\ r.release_pending = 0 \/ parked[t]
              /\ (tasks[t].state = "RUNNING" /\ pendsv = 0) =>
                     r.release_pending = 0 \/ parked[t]

\* Releases that are neither completed nor in progress nor pending.
Balance(r) ==
    (r.release_count - r.completion_count - r.release_pending
         - r.activation_active) % COUNT_MOD

(***************************************************************************)
(* Releases and completions are paired, across wraparound of the counters: *)
(* every release is measured once and completed once, whatever interrupts, *)
(* preemptions and timeouts come in between.  A reset starts a new         *)
(* account, and only the release of a task suspended while READY can       *)
(* count a second time.                                                    *)
(***************************************************************************)
BalanceKept ==
    [][\A t \in Watched :
        \/ Balance(record'[t]) = Balance(record[t])
        \/ parked[t]
        \/ \E u \in ApplicationTask : BenchmarkReset(u)]_allVars

(***************************************************************************)
(* A latency is measured from the latest release and a duration from the   *)
(* start of the activation, or from a later reset (docs/RTOS.md,           *)
(* "post-reset measurements exclude time before the reset").  A latency is *)
(* not, behind a suspend of a READY task: the stamp of the first release   *)
(* survives.                                                               *)
(***************************************************************************)
MeasuresAreFresh ==
    [][\A t \in Watched :
        LET r == record[t]
        IN  /\ (r.release_pending = 1 /\ record'[t].release_pending = 0) =>
                   r.release_cycle = "fresh" \/ parked[t]
            /\ (r.activation_active = 1 /\ record'[t].activation_active = 0) =>
                   r.activation_start_cycle = "fresh"]_allVars
=============================================================================
